--------------------------- MODULE TaskLeaseProofs ---------------------------
(***************************************************************************)
(* What follows from TaskLease alone, and so for every implementation.     *)
(***************************************************************************)
EXTENDS TaskLease, TLAPS

LeaseTypeOK == /\ status \in [Tasks -> Status]
               /\ holds \in [Workers -> Tasks \cup {NoOne}]

LeaseIInv == LeaseTypeOK /\ OneHolder

\* One step of the abstract lease keeps the holders apart: a waiting task has
\* none, and the one who lets go of a task is the only one who had it.
LEMMA LeaseIInvStep ==
  ASSUME NoOne \notin Tasks, LeaseIInv, [LeaseNext]_leaseVars
  PROVE  LeaseIInv'
<1>. USE DEF LeaseIInv, LeaseTypeOK, Status
<1>1. ASSUME NEW t \in Tasks, Add(t)  PROVE LeaseIInv'
  BY <1>1 DEF Add, Become, OneHolder
<1>2. ASSUME NEW t \in Tasks, NEW w \in Workers, Take(w, t)  PROVE LeaseIInv'
  <2>1. \A v \in Workers : holds[v] # t  BY <1>2 DEF Take, OneHolder
  <2> QED  BY <1>2, <2>1 DEF Take, Become, OneHolder
<1>3. ASSUME NEW t \in Tasks, NEW w \in Workers, LetGo(w, t)  PROVE LeaseIInv'
  <2>1. PICK s \in {"waiting", "settled", "abandoned"} : Become(t, s)  BY <1>3 DEF LetGo
  <2>2. \A v \in Workers : holds[v] = t => v = w  BY <1>3 DEF LetGo, OneHolder
  <2>3. LeaseTypeOK'  BY <1>3, <2>1 DEF LetGo, Become
  <2>4. OneHolder'  BY <1>3, <2>1, <2>2 DEF LetGo, Become, OneHolder
  <2> QED  BY <2>3, <2>4
<1>4. CASE UNCHANGED leaseVars  BY <1>4 DEF leaseVars, OneHolder
<1> QED  BY <1>1, <1>2, <1>3, <1>4 DEF LeaseNext

\* Whoever implements TaskLease never has two workers on one task: the unit of
\* exclusion is the waiting task that LeaseTask takes.
THEOREM OneHolderAlways ==
  ASSUME NoOne \notin Tasks
  PROVE  LeaseSpec => []OneHolder
<1>1. LeaseInit => LeaseIInv
  BY DEF LeaseInit, LeaseIInv, LeaseTypeOK, OneHolder, Status
<1>2. LeaseIInv /\ [LeaseNext]_leaseVars => LeaseIInv'  BY LeaseIInvStep
<1>3. LeaseIInv => OneHolder  BY DEF LeaseIInv
<1> QED  BY <1>1, <1>2, <1>3, PTL DEF LeaseSpec
=============================================================================
