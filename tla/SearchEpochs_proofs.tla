-------------------------- MODULE SearchEpochs_proofs --------------------------
(***************************************************************************)
(* Every search of an OursSearch starts with nothing marked, for counters  *)
(* of any width.                                                           *)
(***************************************************************************)
EXTENDS SearchEpochs, TLAPS

\* Every variable has its type.
EpochTypeOK ==
    /\ epoch \in Nat /\ epoch < Wrap32
    /\ vepoch \in Nat /\ vepoch < Wrap8
    /\ marks \in [Families -> SUBSET Nat] /\ vis \subseteq Nat
    /\ built \in BOOLEAN
    /\ searching \in Searches \cup {"none"}
    /\ missed \subseteq Families

\* A running search has an epoch that cleared arrays do not hold.
Running == searching # "none" => epoch > 0 /\ vepoch > 0

\* No mark is younger than the epoch, except in what the last wrap left alone.
NoneYounger ==
    /\ \A a \in Families \ missed : \A e \in marks[a] : 0 < e /\ e <= epoch
    /\ \A v \in vis : 0 < v /\ v <= vepoch

EpochInv == EpochTypeOK /\ Running /\ NoneYounger /\ "shared" \notin missed

\* What a step may do at its start: the body of MarksFresh.
FreshStep ==
    searching = "none" /\ searching' # "none" =>
        /\ vepoch' \notin vis'
        /\ "shared" \notin missed'
        /\ \A a \in Families \ missed' : epoch' \notin marks'[a]

\* A counter stays below its width, and only grows unless it wraps.
LEMMA AdvanceFact ==
    ASSUME NEW w \in Nat, w > 1, NEW e \in Nat, e < w
    PROVE  /\ NonZero(Advance(e, w)) \in Nat
           /\ NonZero(Advance(e, w)) < w
           /\ NonZero(Advance(e, w)) > 0
           /\ Advance(e, w) # 0 => NonZero(Advance(e, w)) = e + 1
BY DEF Advance, NonZero

\* The invariant holds at the start.
LEMMA EpochInitInv == EpochInit => EpochInv
<1> SUFFICES ASSUME EpochInit PROVE EpochInv
  OBVIOUS
<1>1. marks = [a \in Families |-> {}] /\ marks \in [Families -> SUBSET Nat]
  BY DEF EpochInit
<1>2. /\ epoch = 0 /\ vepoch = 0 /\ vis = {} /\ built = FALSE
      /\ missed = {} /\ searching = "none" /\ 0 < Wrap32 /\ 0 < Wrap8
  BY EpochAssumption DEF EpochInit
<1>3. EpochTypeOK
  BY <1>1, <1>2 DEF EpochTypeOK
<1>4. NoneYounger
  BY <1>1 DEF EpochInit, NoneYounger
<1> QED BY <1>2, <1>3, <1>4 DEF EpochInv, Running

\* The start of a search keeps the invariant, and finds nothing marked.
LEMMA BeginInv ==
    ASSUME EpochInv, NEW s \in Searches, Begin(s)
    PROVE  EpochInv' /\ FreshStep
<1> DEFINE e == Advance(epoch, Wrap32)
           v == Advance(vepoch, Wrap8)
           cleared == IF e = 0 THEN Clears(s) ELSE {}
<1>1. PICK needed \in BOOLEAN :
          LET fresh == IF needed /\ ~ built THEN {"tables"} ELSE {} IN
          /\ built' = (built \/ needed)
          /\ marks' = [a \in Families |-> IF a \in fresh \cup cleared THEN {} ELSE marks[a]]
          /\ missed' = (IF e = 0 THEN Families \ cleared ELSE missed) \ fresh
  BY Zenon DEF Begin
<1> DEFINE fresh == IF needed /\ ~ built THEN {"tables"} ELSE {}
<1>2. /\ marks' = [a \in Families |-> IF a \in fresh \cup cleared THEN {} ELSE marks[a]]
      /\ missed' = (IF e = 0 THEN Families \ cleared ELSE missed) \ fresh
      /\ built' \in BOOLEAN
  BY <1>1 DEF EpochInv, EpochTypeOK
<1>3. /\ searching' = s /\ s # "none" /\ searching' \in Searches \cup {"none"}
      /\ epoch' = NonZero(e) /\ vepoch' = NonZero(v)
      /\ vis' = IF VisCleared(v) \/ e = 0 THEN {} ELSE vis
  BY DEF Begin, Searches
<1>4. /\ epoch' \in Nat /\ epoch' < Wrap32 /\ epoch' > 0
      /\ e # 0 => epoch' = epoch + 1
  BY <1>3, AdvanceFact, EpochAssumption DEF EpochInv, EpochTypeOK
<1>5. /\ vepoch' \in Nat /\ vepoch' < Wrap8 /\ vepoch' > 0
      /\ v # 0 => vepoch' = vepoch + 1
  BY <1>3, AdvanceFact, EpochAssumption DEF EpochInv, EpochTypeOK
<1>6. cleared \subseteq Families /\ fresh \subseteq Families /\ "shared" \notin fresh
  BY DEF Clears, Families, Searches
<1>7. missed' \subseteq Families /\ "shared" \notin missed'
  BY <1>2, <1>6 DEF EpochInv, EpochTypeOK, Clears, Families
<1>8. marks' \in [Families -> SUBSET Nat] /\ vis' \subseteq Nat
  BY <1>2, <1>3 DEF EpochInv, EpochTypeOK
<1>9. ASSUME NEW a \in Families \ missed', NEW x \in marks'[a]
      PROVE  0 < x /\ x < epoch'
  <2>1. a \notin fresh \cup cleared /\ x \in marks[a]
    BY <1>2, <1>9
  <2>2. e # 0
    BY <1>2, <1>9, <2>1
  <2>3. a \in Families \ missed
    BY <1>2, <1>9, <2>1, <2>2
  <2>4. x \in Nat /\ 0 < x /\ x <= epoch
    BY <2>1, <2>3 DEF EpochInv, EpochTypeOK, NoneYounger
  <2> QED BY <1>4, <2>2, <2>4 DEF EpochInv, EpochTypeOK
<1>10. ASSUME NEW x \in vis' PROVE 0 < x /\ x < vepoch'
  <2>1. v # 0 /\ x \in vis
    BY <1>3, <1>10 DEF VisCleared
  <2> QED BY <1>5, <2>1 DEF EpochInv, EpochTypeOK, NoneYounger
<1>11. EpochInv'
  <2>1. EpochTypeOK'
    BY <1>2, <1>3, <1>4, <1>5, <1>7, <1>8 DEF EpochTypeOK
  <2>2. NoneYounger'
    BY <1>4, <1>5, <1>8, <1>9, <1>10, <2>1 DEF NoneYounger, EpochTypeOK
  <2> QED BY <1>4, <1>5, <1>7, <2>1, <2>2 DEF EpochInv, Running
<1>12. FreshStep
  <2>1. vepoch' \notin vis'
    BY <1>5, <1>10
  <2>2. \A a \in Families \ missed' : epoch' \notin marks'[a]
    BY <1>4, <1>9
  <2> QED BY <1>7, <2>1, <2>2 DEF FreshStep
<1> QED BY <1>11, <1>12

\* So does every other step: none of them starts a search.
LEMMA OtherInv ==
    ASSUME EpochInv,
           \/ \E a \in Families : Mark(a)
           \/ Visit \/ End \/ Invalidate \/ Renew
           \/ UNCHANGED epochVars
    PROVE  EpochInv' /\ FreshStep
<1> USE DEF EpochInv, EpochTypeOK, Running, NoneYounger
<1>1. ASSUME NEW a \in Families, Mark(a) PROVE EpochInv' /\ FreshStep
  <2>1. marks' \in [Families -> SUBSET Nat]
    BY <1>1 DEF Mark
  <2>2. \A b \in Families \ missed : \A e \in marks'[b] : 0 < e /\ e <= epoch
    <3> TAKE b \in Families \ missed
    <3> TAKE e \in marks'[b]
    <3>1. CASE b = a
      BY <1>1, <3>1 DEF Mark
    <3>2. CASE b # a
      BY <1>1, <3>2 DEF Mark
    <3> QED BY <3>1, <3>2
  <2> QED BY <1>1, <2>1, <2>2 DEF Mark, FreshStep
<1>2. CASE Visit
  BY <1>2 DEF Visit, FreshStep
<1>3. CASE End
  BY <1>3 DEF End, FreshStep
<1>4. CASE Invalidate
  BY <1>4 DEF Invalidate, FreshStep
<1>5. CASE Renew
  <2>1. marks' = [a \in Families |-> {}] /\ marks' \in [Families -> SUBSET Nat]
    BY <1>5 DEF Renew
  <2>2. /\ epoch' = 0 /\ vepoch' = 0 /\ vis' = {} /\ built' = FALSE
        /\ missed' = {} /\ searching' = "none" /\ 0 < Wrap32 /\ 0 < Wrap8
    BY <1>5, EpochAssumption DEF Renew
  <2>3. EpochTypeOK'
    BY <2>1, <2>2
  <2>4. NoneYounger'
    BY <1>5, <2>1 DEF Renew
  <2> QED BY <2>2, <2>3, <2>4 DEF FreshStep
<1>6. CASE UNCHANGED epochVars
  BY <1>6 DEF epochVars, FreshStep
<1> QED BY <1>1, <1>2, <1>3, <1>4, <1>5, <1>6

\* One step from the invariant.
LEMMA EpochStep ==
    ASSUME EpochInv, [EpochNext]_epochVars
    PROVE  EpochInv' /\ FreshStep
<1>1. CASE \E s \in Searches : Begin(s)
  BY <1>1, BeginInv
<1>2. CASE \/ \E a \in Families : Mark(a)
           \/ Visit \/ End \/ Invalidate \/ Renew
           \/ UNCHANGED epochVars
  BY <1>2, OtherInv
<1> QED BY <1>1, <1>2 DEF EpochNext

\* No mark is younger than the epoch: in every reachable state, for counters of
\* any width.
THEOREM EpochInvariant == EpochSpec => []EpochInv
<1>1. EpochInv /\ [EpochNext]_epochVars => EpochInv'
  BY EpochStep
<1> QED BY <1>1, EpochInitInv, PTL DEF EpochSpec

\* A search starts with nothing marked, however many searches ran before.
THEOREM EpochFresh == EpochSpec => MarksFresh
<1>1. EpochInv /\ [EpochNext]_epochVars => [FreshStep]_epochVars
  BY EpochStep
<1>2. EpochSpec => [][FreshStep]_epochVars
  BY <1>1, EpochInvariant, PTL DEF EpochSpec
<1> QED BY <1>2 DEF MarksFresh, FreshStep
=============================================================================
