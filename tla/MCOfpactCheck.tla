---------------------------- MODULE MCOfpactCheck ----------------------------
(***************************************************************************)
(* Every list of up to MaxActs ofpacts from a catalogue that covers each  *)
(* check of ofpact_check__, for flows of each ethertype.                  *)
(***************************************************************************)
EXTENDS OfpactCheck

CONSTANT MaxActs

A(t, x) == [type |-> t, compat |-> "INVALID", arg |-> x]

CheckCatalogue ==
    {A("OUTPUT", p) : p \in {"low", "high", "controller"}}
    \cup {A("ENQUEUE", p) : p \in {"low", "high", "controller"}}
    \cup {A("REG_LOAD", f) : f \in {"MPLS_LABEL", "NW_TOS", "REG0"}}
    \cup {A("PUSH_MPLS", "mpls"), A("POP_MPLS", "ip"), A("POP_MPLS", "arp"),
          A("SET_VLAN_VID", "ok")}

CheckLists ==
    {[acts |-> l, flowDlType |-> t] : l \in SeqOf(CheckCatalogue, MaxActs), t \in EtherTypes}

====
