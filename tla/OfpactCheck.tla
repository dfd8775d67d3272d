----------------------------- MODULE OfpactCheck -----------------------------
(***************************************************************************)
(* ofpacts_check: one ofpact_check__ call per step over an ofpact list,   *)
(* for a flow whose dl_type is flowDlType in a switch of max_ports ports. *)
(*                                                                         *)
(* ofpacts_check keeps a running dl_type, starting at the flow's:         *)
(* push_mpls and pop_mpls overwrite it, and a reg_load is checked against *)
(* a copy of the flow carrying the running dl_type.  Ports are abstracted *)
(* to their relation to max_ports: "low" (< max_ports), "high" (at least  *)
(* max_ports, below OFPP_MAX) and the reserved ports.  A reg_load's arg   *)
(* names its destination field.                                           *)
(***************************************************************************)
EXTENDS OfpCodec

CONSTANT Lists   \* the [acts, flowDlType] pairs a caller may check

EtherTypes == {"ip", "mpls", "arp"}    \* 0x0800, 0x8847, 0x0806

\* ofputil_check_output_port (lib/ofp-util.c): a port below max_ports or
\* a reserved port other than OFPP_NONE.
CheckOutputPort(p) ==
    IF p \in {"low", "in_port", "local", "controller"} THEN None ELSE "OFPBAC_BAD_OUT_PORT"

\* mf_are_prereqs_ok (lib/meta-flow.c) for the destination field of a
\* reg_load (nxm_reg_load_check): MPLS fields need an MPLS ethertype, IP
\* fields an IP one, registers nothing.
FieldPrereqOk(f, t) ==
    CASE f \in {"MPLS_LABEL", "MPLS_TC"} -> t = "mpls"
      [] f = "NW_TOS"                   -> t = "ip"
      [] OTHER                          -> TRUE

RegLoadCheck(f, t) == IF FieldPrereqOk(f, t) THEN None ELSE "OFPBAC_BAD_ARGUMENT"

\* Variant that checks a reg_load against the flow's own dl_type, as if
\* updated_flow were never built, for the mutation runs.
OfpactCheckFlowDlType__(a, flowDlType, dlType) ==
    CASE a.type = "OUTPUT"  -> [err |-> CheckOutputPort(a.arg), dlType |-> dlType]
      [] a.type = "ENQUEUE" ->
            [err |-> IF a.arg \in {"low", "in_port", "local"} THEN None ELSE "OFPBAC_BAD_OUT_PORT",
             dlType |-> dlType]
      [] a.type = "REG_LOAD" ->
            [err |-> IF Centec /\ a.arg \in {"MPLS_LABEL", "MPLS_TC"} THEN None
                     ELSE RegLoadCheck(a.arg, flowDlType),
             dlType |-> dlType]
      [] a.type \in {"PUSH_MPLS", "POP_MPLS"} -> [err |-> None, dlType |-> a.arg]
      [] OTHER -> [err |-> None, dlType |-> dlType]

\* ofpact_check__: the error it returns and the running dl_type it leaves.
\* The kinds not listed (set_vlan_vid, dec_ttl, note, clear, goto, ...)
\* return 0.  Under _OFP_CENTEC_ a reg_load to an MPLS field is not checked.
OfpactCheck__(a, flowDlType, dlType) ==
    CASE a.type = "OUTPUT"  -> [err |-> CheckOutputPort(a.arg), dlType |-> dlType]
      [] a.type = "ENQUEUE" ->
            [err |-> IF a.arg \in {"low", "in_port", "local"} THEN None ELSE "OFPBAC_BAD_OUT_PORT",
             dlType |-> dlType]
      [] a.type = "REG_LOAD" ->
            [err |-> IF Centec /\ a.arg \in {"MPLS_LABEL", "MPLS_TC"} THEN None
                     ELSE RegLoadCheck(a.arg, dlType),
             dlType |-> dlType]
      [] a.type \in {"PUSH_MPLS", "POP_MPLS"} -> [err |-> None, dlType |-> a.arg]
      [] OTHER -> [err |-> None, dlType |-> dlType]

VARIABLES acts, flowDlType, k, dlType, error, pc

vars == <<acts, flowDlType, k, dlType, error, pc>>

Init ==
    /\ \E l \in Lists : acts = l.acts /\ flowDlType = l.flowDlType
    /\ k = 1
    /\ dlType = flowDlType
    /\ error = None
    /\ pc = "loop"

\* One OFPACT_FOR_EACH iteration: the first error is returned.
CheckStep ==
    LET r == OfpactCheck__(acts[k], flowDlType, dlType) IN
    /\ pc = "loop"
    /\ k <= Len(acts)
    /\ dlType' = r.dlType
    /\ \/ /\ r.err = None
          /\ k' = k + 1
          /\ UNCHANGED <<error, pc>>
       \/ /\ r.err # None
          /\ error' = r.err
          /\ pc' = "done"
          /\ UNCHANGED k
    /\ UNCHANGED <<acts, flowDlType>>

CheckEnd ==
    /\ pc = "loop"
    /\ k > Len(acts)
    /\ pc' = "done"
    /\ UNCHANGED <<acts, flowDlType, k, dlType, error>>

Next == CheckStep \/ CheckEnd

Spec == Init /\ [][Next]_vars

-----------------------------------------------------------------------------
\* The ethertype a packet has when it reaches acts[j]: that of the last
\* push_mpls or pop_mpls before j, else the flow's.
EtherTypeAt(j) ==
    LET m == {i \in 1..(j - 1) : acts[i].type \in {"PUSH_MPLS", "POP_MPLS"}} IN
    IF m = {} THEN flowDlType ELSE acts[Max(m)].arg

\* Reference: an ofpact is acceptable at j when its port is usable and a
\* reg_load's field exists in the packet as it is at j.
ActAcceptable(j) ==
    LET a == acts[j] IN
    CASE a.type = "OUTPUT"   -> a.arg # "high"
      [] a.type = "ENQUEUE"  -> a.arg \in {"low", "in_port", "local"}
      [] a.type = "REG_LOAD" ->
            (Centec /\ a.arg \in {"MPLS_LABEL", "MPLS_TC"}) \/ FieldPrereqOk(a.arg, EtherTypeAt(j))
      [] OTHER -> TRUE

(* ofpacts_check accepts a list exactly when every ofpact of it is       *)
(* acceptable for the packet as the earlier push/pop_mpls left it.       *)
CheckMatchesSpec ==
    pc = "done" => (error = None <=> \A j \in 1..Len(acts) : ActAcceptable(j))

=============================================================================
