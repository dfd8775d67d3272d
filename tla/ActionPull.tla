----------------------------- MODULE ActionPull -----------------------------
(***************************************************************************)
(* ofpacts_pull_openflow10 and ofpacts_pull_openflow11_actions, one step   *)
(* per iteration of the ACTION_FOR_EACH loop of ofpacts_from_openflow.     *)
(*                                                                         *)
(* The caller's request is fixed by Init: the wire actions as laid out     *)
(* back to back by their own header.len, the actions_len argument and the *)
(* bytes left in the message.  The loop state is the byte offset of ITER   *)
(* (off, and pos, the index of the record that starts there) and LEFT     *)
(* (left, in 8-byte units).  touched records how far into the message the *)
(* decoder has read.                                                       *)
(***************************************************************************)
EXTENDS OfpCodec

CONSTANT Inputs     \* the requests [version, wire, actionsLen, msgLen] a caller may make

VARIABLES input, left, off, pos, touched, ofpacts, error, pc

vars == <<input, left, off, pos, touched, ofpacts, error, pc>>

\* ofpacts_pull_openflow10 or ofpacts_pull_openflow11_actions: the entry
\* point the caller chose fixes the dialect of every record.
Version == input.version

Cur == input.wire[pos]

Init ==
    /\ input \in Inputs
    /\ left = 0
    /\ off = 0
    /\ pos = 1
    /\ touched = 0
    /\ ofpacts = <<>>
    /\ error = None
    /\ pc = "pull"

\* ofpacts_pull_actions: actions_len not a multiple of OFP_ACTION_ALIGN, or
\* ofpbuf_try_pull finds fewer bytes in the message.
PullRejected ==
    /\ pc = "pull"
    /\ input.actionsLen % OFP_ACTION_ALIGN # 0 \/ input.actionsLen > input.msgLen
    /\ error' = "OFPBRC_BAD_LEN"
    /\ pc' = "done"
    /\ UNCHANGED <<input, left, off, pos, touched, ofpacts>>

PullAccepted ==
    /\ pc = "pull"
    /\ input.actionsLen % OFP_ACTION_ALIGN = 0
    /\ input.actionsLen <= input.msgLen
    /\ left' = input.actionsLen \div OFP_ACTION_ALIGN
    /\ pc' = "walk"
    /\ UNCHANGED <<input, off, pos, touched, ofpacts, error>>

\* One iteration: the loop condition holds and ofpact_from_openflow10/11
\* translates the record at ITER.
DecodeAction ==
    LET r == OfpactFromOpenflow(Version, Cur) IN
    /\ pc = "walk"
    /\ left > 0
    /\ ActionIsValid(Cur, left)
    /\ touched' = off + Cur.len
    /\ IF r.err = None
       THEN /\ ofpacts' = ofpacts \o r.acts
            /\ left' = left - Cur.len \div OFP_ACTION_ALIGN
            /\ off' = off + Cur.len
            /\ pos' = pos + 1
            /\ UNCHANGED <<error, pc>>
       ELSE \* log_bad_action, return; ofpacts_pull_actions clears ofpacts
            /\ error' = r.err
            /\ ofpacts' = <<>>
            /\ pc' = "done"
            /\ UNCHANGED <<left, off, pos>>
    /\ UNCHANGED input

\* Variant that lets leftover units pass unnoticed, for the mutation runs.
EndWalkIgnoreLeftover ==
    /\ pc = "walk"
    /\ ~(left > 0 /\ ActionIsValid(Cur, left))
    /\ LET e == OfpactsVerify(ofpacts) IN
       /\ error' = e
       /\ ofpacts' = IF e = None THEN ofpacts ELSE <<>>
    /\ pc' = "done"
    /\ UNCHANGED <<input, left, off, pos, touched>>

\* The loop condition fails: leftover units are BAD_LEN; otherwise
\* ofpact_pad and then ofpacts_verify decide.
EndWalk ==
    /\ pc = "walk"
    /\ ~(left > 0 /\ ActionIsValid(Cur, left))
    /\ LET e == IF left # 0 THEN "OFPBAC_BAD_LEN" ELSE OfpactsVerify(ofpacts) IN
       /\ error' = e
       /\ ofpacts' = IF e = None THEN ofpacts ELSE <<>>
    /\ pc' = "done"
    /\ UNCHANGED <<input, left, off, pos, touched>>

Next ==
    \/ PullRejected
    \/ PullAccepted
    \/ DecodeAction
    \/ EndWalk

Spec == Init /\ [][Next]_vars

\* The pull runs in the caller's thread from its entry to its return: no
\* step waits for anything, so an enabled step is eventually taken.
FairSpec == Spec /\ WF_vars(Next)

-----------------------------------------------------------------------------
(***************************************************************************)
(* Properties.                                                             *)
(***************************************************************************)
TypeOK ==
    /\ pc \in {"pull", "walk", "done"}
    /\ left \in Nat /\ off \in Nat /\ touched \in Nat
    /\ pos \in 1..(Len(input.wire) + 1)
    /\ \A i \in DOMAIN ofpacts : ofpacts[i].type \in OfpactTypes
    /\ error \in STRING

(* The walk never reads a record that reaches past the actions_len bytes  *)
(* ofpbuf_try_pull handed it (action_is_valid's bound on LEFT).           *)
WalkInBounds == touched <= input.actionsLen

(* Round trip: when a pull succeeds, the records it consumed cover the    *)
(* pulled bytes exactly, and encoding the decoded ofpacts again in the    *)
(* same dialect (ofpacts_put_openflow10 / ofpacts_put_openflow11_actions) *)
(* gives back those records in canonical form.                            *)
RoundTrip ==
    (pc = "done" /\ error = None) =>
        /\ off = input.actionsLen
        /\ PutOpenflow(Version, ofpacts)
             = [i \in 1..(pos - 1) |-> CanonicalAction(Version, input.wire[i])]

\* The wire records that name an output port: output and enqueue.
ForwardingTypes == {"OFPAT10_OUTPUT", "OFPAT11_OUTPUT", "OFPAT10_ENQUEUE"}

(* Where an accepted list sends packets, as the switch asks it through   *)
(* ofpacts_output_to_port on the pulled ofpacts (flow filters by         *)
(* out_port), is exactly the set of ports the peer's output and enqueue  *)
(* records name, in either dialect.                                      *)
OutputsMatchWire ==
    (pc = "done" /\ error = None) =>
        \A p \in Ports :
            OfpactsOutputToPort(ofpacts, p)
                <=> \E i \in 1..(pos - 1) :
                        input.wire[i].type \in ForwardingTypes /\ input.wire[i].arg = p

\* Refinement mapping: the call's result is visible once it has returned.
CallResult ==
    IF pc = "done" THEN [err |-> error, acts |-> ofpacts]
    ELSE [err |-> "pending", acts |-> <<>>]

Contract == INSTANCE PullActionsSpec
    WITH request <- input, result <- CallResult

(* The stepwise pull implements the contract of PullActionsSpec: it      *)
(* accepts exactly the requests whose records tile actions_len and        *)
(* translate and verify, returns their translations in wire order, and    *)
(* otherwise returns an error with no ofpacts, however far the walk got   *)
(* (the clear of ofpacts_pull_actions); under the fairness of a running   *)
(* call every pull returns.                                                *)
ImplementsContract == Contract!LiveSpec

=============================================================================
