-------------------------- MODULE PullActionsSpec --------------------------
(***************************************************************************)
(* What ofpacts_pull_openflow10 / ofpacts_pull_openflow11_actions promise  *)
(* to their callers, stated from spec 4.A, 6.1 and 7 without the walk:    *)
(* a call on a request eventually returns, in one step, and               *)
(*  - it succeeds exactly when actions_len is aligned and present in the   *)
(*    message, a prefix of the records tiles those bytes exactly with      *)
(*    aligned records of at least one unit, every record of that prefix    *)
(*    translates, and the translations pass ofpacts_verify;               *)
(*  - on success the ofpacts are the records' translations in wire order;  *)
(*  - otherwise it returns one of the action errors and no ofpacts.        *)
(* The per-record translation (4.D) and the order check (4.H) are the     *)
(* pieces the walk is built from; what this module states independently   *)
(* is how the list is consumed and what a failure leaves behind.          *)
(***************************************************************************)
EXTENDS OfpCodec

VARIABLES request,  \* the caller's [version, wire, actionsLen, msgLen], whatever it is
          result

vars == <<request, result>>

Pending == [err |-> "pending", acts |-> <<>>]   \* the call has not returned yet

\* The error kinds of spec 7 an action pull can return.
PullErrors == {"OFPBRC_BAD_LEN", "OFPBAC_BAD_LEN", "OFPBAC_BAD_TYPE", "OFPBAC_BAD_VENDOR",
               "OFPBAC_BAD_ARGUMENT", "OFPBAC_BAD_OUT_PORT", "NXBRC_MUST_BE_ZERO",
               "OFPBAC_UNSUPPORTED_ORDER"}

\* Spec 4.A: the first k records are each aligned and at least one unit
\* long, and together occupy exactly actions_len bytes.
Tiles(req, k) ==
    /\ \A i \in 1..k : req.wire[i].len % OFP_ACTION_ALIGN = 0
                       /\ req.wire[i].len >= OFP_ACTION_ALIGN
    /\ WireBytes(SubSeq(req.wire, 1, k)) = req.actionsLen

\* The translations of the first k records, in wire order.
Translated(req, k) ==
    FlattenSeq([i \in 1..k |-> OfpactFromOpenflow(req.version, req.wire[i]).acts])

Acceptable(req, k) ==
    /\ req.actionsLen % OFP_ACTION_ALIGN = 0
    /\ req.actionsLen <= req.msgLen
    /\ Tiles(req, k)
    /\ \A i \in 1..k : OfpactFromOpenflow(req.version, req.wire[i]).err = None
    /\ OfpactsVerify(Translated(req, k)) = None

Init == result = Pending

Return ==
    /\ result = Pending
    /\ IF \E k \in 0..Len(request.wire) : Acceptable(request, k)
       THEN LET k == CHOOSE k \in 0..Len(request.wire) : Acceptable(request, k)
            IN  result' = [err |-> None, acts |-> Translated(request, k)]
       ELSE \E e \in PullErrors : result' = [err |-> e, acts |-> <<>>]
    /\ UNCHANGED request

Spec == Init /\ [][Return]_vars

\* A call that has been made returns: the functions never block or wait.
LiveSpec == Spec /\ WF_vars(Return)

=============================================================================
