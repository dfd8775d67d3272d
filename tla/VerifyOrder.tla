------------------------------ MODULE VerifyOrder ------------------------------
(***************************************************************************)
(* ofpacts_verify one OFPACT_FOR_EACH iteration at a step, checked        *)
(* against the partial order of spec 4.H stated independently.            *)
(***************************************************************************)
EXTENDS OfpCodec

CONSTANT Lists      \* the ofpact lists verified

VARIABLES acts,     \* the list
          k,        \* index of the ofpact at the cursor a
          inst,     \* the instruction category of the last ofpact
          error,
          pc

vars == <<acts, k, inst, error, pc>>

Init ==
    /\ acts \in Lists
    /\ k = 1
    /\ inst = InstApply
    /\ error = None
    /\ pc = "loop"

\* Variant that refuses only a falling category, letting a non-apply one
\* repeat, for the mutation runs.
VerifyStepStrict ==
    LET next == InstructionOf(acts[k]) IN
    /\ pc = "loop"
    /\ k <= Len(acts)
    /\ IF inst # InstApply /\ next < inst
       THEN /\ error' = "OFPBAC_UNSUPPORTED_ORDER"
            /\ pc' = "done"
            /\ UNCHANGED <<k, inst>>
       ELSE /\ inst' = next
            /\ k' = k + 1
            /\ UNCHANGED <<error, pc>>
    /\ UNCHANGED acts

\* One iteration: classify the ofpact, refuse a category that does not
\* rise above a non-apply one, remember it.
VerifyStep ==
    LET next == InstructionOf(acts[k]) IN
    /\ pc = "loop"
    /\ k <= Len(acts)
    /\ IF inst # InstApply /\ next <= inst
       THEN /\ error' = "OFPBAC_UNSUPPORTED_ORDER"
            /\ pc' = "done"
            /\ UNCHANGED <<k, inst>>
       ELSE /\ inst' = next
            /\ k' = k + 1
            /\ UNCHANGED <<error, pc>>
    /\ UNCHANGED acts

VerifyEnd ==
    /\ pc = "loop"
    /\ k > Len(acts)
    /\ pc' = "done"
    /\ UNCHANGED <<acts, k, inst, error>>

Next == VerifyStep \/ VerifyEnd

Spec == Init /\ [][Next]_vars

-----------------------------------------------------------------------------
\* Spec 4.H in its own words: the categories and their order.
SpecCategory(o) ==
    CASE o.type = "CLEAR_ACTIONS"  -> 1
      [] o.type = "WRITE_METADATA" -> 2
      [] o.type = "GOTO_TABLE"     -> 3
      [] OTHER                     -> 0

\* No category falls below one seen before it; only apply repeats.
SpecOrderOk(l) ==
    \A i, j \in DOMAIN l :
        i < j => /\ SpecCategory(l[i]) <= SpecCategory(l[j])
                 /\ SpecCategory(l[i]) = SpecCategory(l[j]) => SpecCategory(l[i]) = 0

(* ofpacts_verify, which compares each category with the last one only,  *)
(* accepts exactly the lists the spec's partial order accepts.            *)
VerifyMatchesSpec == pc = "done" => (error = None <=> SpecOrderOk(acts))

=============================================================================
