------------------------- MODULE SettingCache_proofs -------------------------
(***************************************************************************)
(* Proofs about a setting and its copy, for any number of requests.        *)
(***************************************************************************)
EXTENDS SettingCache, TLAPS

Types ==
  /\ row \in BOOLEAN /\ wanted \in BOOLEAN /\ disturbed \in BOOLEAN
  /\ cache \in {"none", "on", "off"}
  /\ spc \in [Sessions -> {"idle", "forget", "look", "fill", "use", "clear"}]
  /\ op \in [Sessions -> {"read", "set", "toggle"}]
  /\ value \in [Sessions -> BOOLEAN]
  /\ snapshot \in [Sessions -> BOOLEAN] /\ loaded \in [Sessions -> BOOLEAN]

\* Sessions were served one at a time.
OneActive == \A s, q \in Sessions : spc[s] # "idle" /\ spc[q] # "idle" => s = q

\* The copy is the row's, unless a writer is about to drop it.
CopyOfRow == cache = "none" \/ cache = Copy(row) \/ \E s \in Sessions : spc[s] = "clear"

\* A session works on the row as it is.
UpToDate ==
  \A s \in Sessions :
    /\ spc[s] \in {"forget", "look"} => snapshot[s] = row
    /\ spc[s] \in {"fill", "use"} => loaded[s] = row

Undisturbed == ~disturbed => OneActive /\ CopyOfRow /\ UpToDate /\ row = wanted

IInv == Types /\ Undisturbed

-----------------------------------------------------------------------------

LEMMA CopyType == \A v \in BOOLEAN : Copy(v) \in {"on", "off"} /\ (v <=> Copy(v) = "on")
  BY DEF Copy

LEMMA InitOk == Init => IInv
  <1> SUFFICES ASSUME Init PROVE IInv
    OBVIOUS
  <1>1. Types
    <2>1. row \in BOOLEAN /\ wanted = row /\ disturbed = FALSE
      BY DEF Init
    <2>2. cache \in {"none", "on", "off"}
      BY <2>1, CopyType DEF Init
    <2> QED
      BY <2>1, <2>2 DEF Init, Types
  <1> QED
    BY <1>1 DEF Init, IInv, Undisturbed, OneActive, CopyOfRow, UpToDate

LEMMA StepOk == IInv /\ [Next]_vars => IInv'
  <1> SUFFICES ASSUME IInv, [Next]_vars PROVE IInv'
    OBVIOUS
  <1> USE DEF IInv
  <1> DEFINE Labels == {"idle", "forget", "look", "fill", "use", "clear"}
  <1>1. ASSUME NEW s \in Sessions, NEW o \in {"read", "set", "toggle"}, NEW first \in {"look", "forget"},
               Start(s, o, first), value' \in [Sessions -> BOOLEAN]
        PROVE  IInv'
    <2>1. Types'
      BY <1>1 DEF Start, Types
    <2>2. Undisturbed'
      <3> SUFFICES ASSUME ~disturbed' PROVE (OneActive /\ CopyOfRow /\ UpToDate /\ row = wanted)'
        BY DEF Undisturbed
      <3>1. ~disturbed /\ \A q \in Sessions : spc[q] = "idle"
        BY <1>1 DEF Start, Active, Types
      <3>2. /\ spc'[s] = first /\ snapshot'[s] = row
            /\ \A q \in Sessions : q # s => spc'[q] = "idle"
            /\ UNCHANGED <<row, cache, wanted>>
        BY <1>1, <3>1 DEF Start, Types
      <3> QED
        BY <3>1, <3>2 DEF Undisturbed, OneActive, CopyOfRow, UpToDate
    <2> QED
      BY <2>1, <2>2
  <1>2. ASSUME NEW s \in Sessions, StartRead(s) PROVE IInv'
    BY <1>1, <1>2 DEF StartRead, Types
  <1>3. ASSUME NEW s \in Sessions, StartWrite(s) PROVE IInv'
    BY <1>1, <1>3 DEF StartWrite, Types
  <1>4. ASSUME NEW s \in Sessions, Forget(s) PROVE IInv'
    <2>1. /\ spc[s] = "forget" /\ Redis("none") /\ spc' = [spc EXCEPT ![s] = "look"]
          /\ UNCHANGED <<row, op, value, snapshot, loaded, wanted>>
      BY <1>4 DEF Forget, Goto
    <2>2. Types'
      BY <2>1 DEF Types, Redis
    <2>3. Undisturbed'
      BY <2>1 DEF Types, Redis, Undisturbed, OneActive, CopyOfRow, UpToDate
    <2> QED
      BY <2>2, <2>3
  <1>5. ASSUME NEW s \in Sessions, LookUp(s) PROVE IInv'
    <2>1. /\ spc[s] = "look" /\ UNCHANGED <<row, cache, op, value, snapshot, wanted, disturbed>>
          /\ \/ /\ cache # "none" /\ loaded' = [loaded EXCEPT ![s] = cache = "on"]
                /\ spc' = [spc EXCEPT ![s] = "use"]
             \/ /\ loaded' = [loaded EXCEPT ![s] = snapshot[s]]
                /\ spc' = [spc EXCEPT ![s] = "fill"]
      BY <1>5 DEF LookUp, Goto
    <2>2. Types'
      <3>1. spc' \in [Sessions -> Labels]
        BY <2>1 DEF Types
      <3>2. (cache = "on") \in BOOLEAN /\ snapshot[s] \in BOOLEAN
        BY DEF Types
      <3>3. loaded' \in [Sessions -> BOOLEAN]
        BY <2>1, <3>2 DEF Types
      <3> QED
        BY <2>1, <3>1, <3>3 DEF Types
    <2>3. Undisturbed'
      <3> SUFFICES ASSUME ~disturbed PROVE (OneActive /\ CopyOfRow /\ UpToDate /\ row = wanted)'
        BY <2>1 DEF Undisturbed
      <3>1. OneActive /\ CopyOfRow /\ UpToDate /\ row = wanted
        BY DEF Undisturbed
      <3>2. \A q \in Sessions : q # s => spc[q] = "idle"
        BY <2>1, <3>1 DEF OneActive
      <3>3. \A q \in Sessions : q # s => spc'[q] = "idle"
        BY <2>1, <3>2 DEF Types
      <3>4. spc'[s] \in {"use", "fill"}
        BY <2>1 DEF Types
      <3>5. cache = "none" \/ cache = Copy(row)
        BY <2>1, <3>1, <3>2 DEF CopyOfRow
      <3>6. loaded'[s] = row
        <4>1. CASE cache # "none" /\ loaded' = [loaded EXCEPT ![s] = cache = "on"]
          <5>1. row \in BOOLEAN /\ (row <=> cache = "on")
            BY <3>5, <4>1, CopyType DEF Types
          <5>2. loaded'[s] = (cache = "on")
            BY <4>1 DEF Types
          <5> QED
            BY <5>1, <5>2
        <4>2. CASE loaded' = [loaded EXCEPT ![s] = snapshot[s]]
          BY <2>1, <3>1, <4>2 DEF Types, UpToDate
        <4> QED
          BY <2>1, <4>1, <4>2
      <3> QED
        BY <2>1, <3>1, <3>3, <3>4, <3>5, <3>6 DEF OneActive, CopyOfRow, UpToDate
    <2> QED
      BY <2>2, <2>3
  <1>6. ASSUME NEW s \in Sessions, Fill(s) PROVE IInv'
    <2>1. /\ spc[s] = "fill" /\ Redis(Copy(loaded[s])) /\ spc' = [spc EXCEPT ![s] = "use"]
          /\ UNCHANGED <<row, op, value, snapshot, loaded, wanted>>
      BY <1>6 DEF Fill, Goto
    <2>2. Types'
      BY <2>1, CopyType DEF Types, Redis
    <2>3. Undisturbed'
      BY <2>1 DEF Types, Redis, Undisturbed, OneActive, CopyOfRow, UpToDate
    <2> QED
      BY <2>2, <2>3
  <1>7. ASSUME NEW s \in Sessions, UseRead(s) PROVE IInv'
    <2>1. /\ spc[s] = "use" /\ spc' = [spc EXCEPT ![s] = "idle"]
          /\ UNCHANGED <<row, cache, op, value, snapshot, loaded, wanted, disturbed>>
      BY <1>7 DEF UseRead, Goto
    <2>2. Types'
      BY <2>1 DEF Types
    <2>3. Undisturbed'
      BY <2>1 DEF Types, Undisturbed, OneActive, CopyOfRow, UpToDate
    <2> QED
      BY <2>2, <2>3
  <1>8. ASSUME NEW s \in Sessions, CommitValue(s) PROVE IInv'
    <2>1. /\ spc[s] = "use" /\ spc' = [spc EXCEPT ![s] = "clear"]
          /\ row' = IF NewValue(s) = loaded[s] THEN row ELSE NewValue(s)
          /\ wanted' = NewValue(s)
          /\ UNCHANGED <<cache, op, value, snapshot, loaded, disturbed>>
      BY <1>8 DEF CommitValue, Goto
    <2>2. NewValue(s) \in BOOLEAN
      BY DEF NewValue, Types
    <2>3. Types'
      BY <2>1, <2>2 DEF Types
    <2>4. Undisturbed'
      <3> SUFFICES ASSUME ~disturbed PROVE (OneActive /\ CopyOfRow /\ UpToDate /\ row = wanted)'
        BY <2>1 DEF Undisturbed
      <3>1. loaded[s] = row /\ \A q \in Sessions : q # s => spc[q] = "idle"
        BY <2>1 DEF Undisturbed, OneActive, UpToDate
      <3>2. row' = wanted'
        BY <2>1, <3>1
      <3>3. spc'[s] = "clear" /\ \A q \in Sessions : q # s => spc'[q] = "idle"
        BY <2>1, <3>1 DEF Types
      <3> QED
        BY <3>2, <3>3 DEF OneActive, CopyOfRow, UpToDate
    <2> QED
      BY <2>3, <2>4
  <1>9. ASSUME NEW s \in Sessions, ClearCache(s) PROVE IInv'
    <2>1. /\ spc[s] = "clear" /\ Redis("none") /\ spc' = [spc EXCEPT ![s] = "idle"]
          /\ UNCHANGED <<row, op, value, snapshot, loaded, wanted>>
      BY <1>9 DEF ClearCache, Goto, AfterCommit
    <2>2. Types'
      BY <2>1 DEF Types, Redis
    <2>3. Undisturbed'
      BY <2>1 DEF Types, Redis, Undisturbed, OneActive, CopyOfRow, UpToDate
    <2> QED
      BY <2>2, <2>3
  <1>10. CASE Expire
    BY <1>10 DEF Expire, Types, Undisturbed, OneActive, CopyOfRow, UpToDate
  <1>11. CASE UNCHANGED vars
    BY <1>11 DEF vars, Types, Undisturbed, OneActive, CopyOfRow, UpToDate
  <1> QED
    BY <1>2, <1>3, <1>4, <1>5, <1>6, <1>7, <1>8, <1>9, <1>10, <1>11 DEF Next, Serve

\* While sessions do not overlap and Redis works, the row holds what the last
\* writer meant it to hold.
THEOREM SerialWritesAreKept == Spec => []SerialWritesStick
  <1>1. IInv => SerialWritesStick
    BY DEF IInv, Undisturbed, SerialWritesStick
  <1> QED
    BY <1>1, InitOk, StepOk, PTL DEF Spec

=============================================================================
