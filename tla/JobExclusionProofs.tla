------------------------- MODULE JobExclusionProofs -------------------------
(***************************************************************************)
(* The abstract specification of the ledger keeps its promise: whatever    *)
(* implements JobExclusion never lets two workers overlap.                 *)
(***************************************************************************)
EXTENDS JobExclusion, TLAPS

\* Jobs clash in both directions: being of one novel is symmetric.
Symmetric == \A j, k \in Job : <<j, k>> \in Clash => <<k, j>> \in Clash

Inv == TypeInv /\ Exclusion

LEMMA CompatibleSymmetric ==
    ASSUME Symmetric, NEW w \in Work, NEW v \in Work, Compatible(w, v)
    PROVE  Compatible(v, w)
BY DEF Symmetric, Work, Compatible

LEMMA StartExcludes ==
    ASSUME Symmetric, NULL \notin Work, Inv, NEW i \in Worker, NEW w \in Work, Start(i, w)
    PROVE  Inv'
<1>1. TypeInv'
  BY DEF Inv, TypeInv, Start
<1>2. work' = [work EXCEPT ![i] = w] /\ work \in [Worker -> Work \union {NULL}]
  BY DEF Inv, TypeInv, Start
<1>3. ASSUME NEW k \in Worker \ {i}, work[k] # NULL
      PROVE  Compatible(w, work[k]) /\ Compatible(work[k], w)
  <2>1. work[k] \in Work /\ Compatible(w, work[k])
    BY <1>2, <1>3 DEF Start
  <2> QED
    BY <2>1, CompatibleSymmetric
<1>4. ASSUME NEW a \in Worker, NEW b \in Worker, a # b, work'[a] # NULL, work'[b] # NULL
      PROVE  Compatible(work'[a], work'[b])
  <2>1. CASE a = i
    BY <1>2, <1>3, <1>4, <2>1
  <2>2. CASE b = i
    BY <1>2, <1>3, <1>4, <2>2
  <2>3. CASE a # i /\ b # i
    BY <1>2, <1>4, <2>3 DEF Inv, Exclusion
  <2> QED
    BY <2>1, <2>2, <2>3
<1> QED
  BY <1>1, <1>4 DEF Inv, Exclusion, Compatible

\* A step that starts no work may only end some.
LEMMA OtherStepsExclude ==
    ASSUME Inv, TypeInv', \A i \in Worker : work'[i] \in {work[i], NULL}
    PROVE  Inv'
BY DEF Inv, Exclusion, Compatible

LEMMA NextExcludes ==
    ASSUME Symmetric, NULL \notin Work, Inv, [Next]_absVars
    PROVE  Inv'
<1>1. ASSUME NEW j \in Job, Open(j) PROVE Inv'
  BY <1>1, OtherStepsExclude DEF Inv, TypeInv, Open
<1>2. ASSUME NEW i \in Worker, NEW w \in Work, Start(i, w) PROVE Inv'
  BY <1>2, StartExcludes
<1>3. ASSUME NEW i \in Worker, Stop(i) PROVE Inv'
  BY <1>3, OtherStepsExclude DEF Inv, TypeInv, Stop
<1>4. ASSUME NEW i \in Worker, Finish(i) PROVE Inv'
  BY <1>4, OtherStepsExclude DEF Inv, TypeInv, Finish
<1>5. ASSUME NEW js \in SUBSET Job, Close(js) PROVE Inv'
  BY <1>5, OtherStepsExclude DEF Inv, TypeInv, Close
<1>6. CASE UNCHANGED absVars
  BY <1>6, OtherStepsExclude DEF Inv, TypeInv, absVars
<1> QED
  BY <1>1, <1>2, <1>3, <1>4, <1>5, <1>6 DEF Next

\* No two workers work at once on one job, on jobs that clash or against one site:
\* what the exclusion of claim_running_with_exclusion is for follows from the
\* abstract specification alone.
THEOREM AbstractExclusion ==
    ASSUME Symmetric, NULL \notin Work
    PROVE  Spec => []Exclusion
<1>1. Init => Inv
  BY DEF Init, Inv, TypeInv, Exclusion
<1>2. Inv /\ [Next]_absVars => Inv'
  BY NextExcludes
<1>3. Inv => Exclusion
  BY DEF Inv
<1> QED
  BY <1>1, <1>2, <1>3, PTL DEF Spec
=============================================================================
