---------------------------- MODULE SettingCache ----------------------------
(***************************************************************************)
(* One boolean setting, such as engine_paused: its row, its copy in Redis  *)
(* (models/setting.py), the engine that reads it every turn of its loop,   *)
(* and the web requests that read, set or toggle it                        *)
(* (web/views/api/admin.py).                                               *)
(*                                                                         *)
(* Every session reads the row as of the snapshot its first query took.  A *)
(* cached copy may be returned or, if that fails, ignored.  A writer       *)
(* changes the object it was given, so that a value equal to the loaded    *)
(* one is no change and nothing is written.                                *)
(***************************************************************************)
EXTENDS Naturals, FiniteSets

CONSTANTS
  engine,
  Requests,    \* web requests
  MaxWrites    \* bound: requests that write

ASSUME CacheAssumption ==
  engine \notin Requests /\ MaxWrites \in Nat

VARIABLES
  row,        \* the committed value
  cache,      \* the copy in Redis, or "none"
  spc,        \* where each session is
  op,         \* what it is for: "read", "set" or "toggle"
  value,      \* the value a "set" is given
  snapshot,   \* the row as its transaction sees it
  loaded,     \* the value get_setting gave it
  seen,       \* what the engine read last
  writes,
  wanted,     \* history: what the last writer to commit meant the row to be
  disturbed   \* history: a session started while another was active, or a
              \* Redis command failed

vars == <<row, cache, spc, op, value, snapshot, loaded, seen, writes, wanted, disturbed>>

Sessions == {engine} \cup Requests

Active == {s \in Sessions : spc[s] # "idle"}

\* A Redis command has its effect on the copy, or fails.
Redis(v) ==
  \/ cache' = v /\ UNCHANGED disturbed
  \/ cache' = cache /\ disturbed' = TRUE

Start(s, o, first) ==
  /\ spc[s] = "idle"
  /\ op' = [op EXCEPT ![s] = o]
  /\ snapshot' = [snapshot EXCEPT ![s] = row]
  /\ disturbed' = (disturbed \/ Active # {})
  /\ spc' = [spc EXCEPT ![s] = first]
  /\ UNCHANGED <<row, cache, loaded, seen, wanted>>

\* The top of the engine's loop: rollback(), a new snapshot; or a page.
StartRead(s) == Start(s, "read", "look") /\ UNCHANGED <<value, writes>>

\* Some of the toggles clear the copy first.
StartWrite(s) ==
  /\ s \in Requests /\ writes < MaxWrites
  /\ writes' = writes + 1
  /\ \/ /\ Start(s, "set", "look")
        /\ \E v \in BOOLEAN : value' = [value EXCEPT ![s] = v]
     \/ /\ \E first \in {"look", "forget"} : Start(s, "toggle", first)
        /\ UNCHANGED value

Goto(s, label) == spc' = [spc EXCEPT ![s] = label]

Forget(s) ==
  /\ spc[s] = "forget"
  /\ Redis("none")
  /\ Goto(s, "look")
  /\ UNCHANGED <<row, op, value, snapshot, loaded, seen, writes, wanted>>

\* get_setting: the cached copy, or the row of the snapshot, which goes back
\* into the cache in a step of its own.
LookUp(s) ==
  /\ spc[s] = "look"
  /\ \/ /\ cache # "none"
        /\ loaded' = [loaded EXCEPT ![s] = cache = "on"]
        /\ Goto(s, "use")
     \/ /\ loaded' = [loaded EXCEPT ![s] = snapshot[s]]
        /\ Goto(s, "fill")
  /\ UNCHANGED <<row, cache, op, value, snapshot, seen, writes, wanted, disturbed>>

Copy(v) == IF v THEN "on" ELSE "off"

Fill(s) ==
  /\ spc[s] = "fill"
  /\ Redis(Copy(loaded[s]))
  /\ Goto(s, "use")
  /\ UNCHANGED <<row, op, value, snapshot, loaded, seen, writes, wanted>>

UseRead(s) ==
  /\ spc[s] = "use" /\ op[s] = "read"
  /\ seen' = IF s = engine THEN loaded[s] ELSE seen
  /\ Goto(s, "idle")
  /\ UNCHANGED <<row, cache, op, value, snapshot, loaded, writes, wanted, disturbed>>

\* setting.value = ...; session.commit()
NewValue(s) == IF op[s] = "set" THEN value[s] ELSE ~loaded[s]

CommitValue(s) ==
  /\ spc[s] = "use" /\ op[s] # "read"
  /\ row' = IF NewValue(s) = loaded[s] THEN row ELSE NewValue(s)
  /\ wanted' = NewValue(s)
  /\ Goto(s, "clear")
  /\ UNCHANGED <<cache, op, value, snapshot, loaded, seen, writes, disturbed>>

\* Mutant: the copy is not cleared after the commit.
AfterCommitKept == cache

AfterCommit == "none"

ClearCache(s) ==
  /\ spc[s] = "clear"
  /\ Redis(AfterCommit)
  /\ Goto(s, "idle")
  /\ UNCHANGED <<row, op, value, snapshot, loaded, seen, writes, wanted>>

\* Mutant: the copy has no lifetime.
ExpireNever == FALSE

\* CACHE_TTL
Expire ==
  /\ cache # "none"
  /\ cache' = "none"
  /\ UNCHANGED <<row, spc, op, value, snapshot, loaded, seen, writes, wanted, disturbed>>

Serve(s) ==
  Forget(s) \/ LookUp(s) \/ Fill(s) \/ UseRead(s) \/ CommitValue(s) \/ ClearCache(s)

Init ==
  /\ row \in BOOLEAN /\ cache \in {"none", Copy(row)}
  /\ spc = [s \in Sessions |-> "idle"]
  /\ op = [s \in Sessions |-> "read"]
  /\ value = [s \in Sessions |-> FALSE]
  /\ snapshot = [s \in Sessions |-> row]
  /\ loaded = [s \in Sessions |-> row]
  /\ seen = row /\ wanted = row
  /\ writes = 0 /\ disturbed = FALSE

Next ==
  \/ \E s \in Sessions : StartRead(s) \/ StartWrite(s) \/ Serve(s)
  \/ Expire

Spec == Init /\ [][Next]_vars

\* The engine turns, a request is served to its end, and Redis keeps time.
FairSpec ==
  /\ Spec
  /\ WF_vars(StartRead(engine))
  /\ \A s \in Sessions : WF_vars(Serve(s))
  /\ WF_vars(Expire)

(***************************************************************************)
(* Correctness                                                             *)
(***************************************************************************)

\* Requests that do not overlap are never misled by a Redis that works: what
\* the last one wrote is what the row holds, although a write equal to the
\* loaded value is dropped.
SerialWritesStick == ~disturbed => row = wanted

\* Once writers leave the setting alone the engine comes to see it and keeps
\* seeing it, even if a slow reader put an old copy back, or Redis failed to
\* drop it.
EngineSeesSetting ==
  \A v \in BOOLEAN : <>[](row = v) => <>[](seen = v)

=============================================================================
