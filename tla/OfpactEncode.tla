----------------------------- MODULE OfpactEncode -----------------------------
(***************************************************************************)
(* An ofpact list built inside the switch (by the flow parser or a       *)
(* controller-facing module) put on the wire by ofpacts_put_openflow10 / *)
(* ofpacts_put_openflow11_actions and pulled back by ofpacts_pull_       *)
(* openflow10 / ofpacts_pull_openflow11_actions, as a peer would.         *)
(***************************************************************************)
EXTENDS OfpFormat

CONSTANTS Version,   \* "OF10" or "OF11"
          Lists      \* the ofpact lists a caller may put

ASSUME Version \in {"OF10", "OF11"}

VARIABLES acts,      \* the ofpacts put
          wire,      \* the wire records they became
          back,      \* what the pull of those records returned
          pc

vars == <<acts, wire, back, pc>>

Init ==
    /\ acts \in Lists
    /\ wire = <<>>
    /\ back = Fail("pending")
    /\ pc = "put"

Put ==
    /\ pc = "put"
    /\ wire' = PutOpenflow(Version, acts)
    /\ pc' = "pull"
    /\ UNCHANGED <<acts, back>>

Pull ==
    /\ pc = "pull"
    /\ LET req == [wire |-> wire, actionsLen |-> WireBytes(wire), msgLen |-> WireBytes(wire)]
       IN  back' = IF Version = "OF10" THEN PullOpenflow10(req) ELSE PullOpenflow11Actions(req)
    /\ pc' = "done"
    /\ UNCHANGED <<acts, wire>>

Next == Put \/ Pull

Spec == Init /\ [][Next]_vars

-----------------------------------------------------------------------------
TypeOK ==
    /\ pc \in {"put", "pull", "done"}
    /\ \A i \in DOMAIN wire : wire[i].type \in WireTypes
    /\ back.err \in STRING

\* An ofpact without the compat field that only steers the encoder.
Meaning(o) == [type |-> o.type, arg |-> o.arg]

\* The kinds the dialect has a record for, its own or a Nicira one.  1.0
\* has none for push_vlan and the instructions; a 1.1 action list never
\* holds an instruction.
DialectExpresses(o) ==
    o.type \notin (IF Version = "OF10"
                   THEN {"PUSH_VLAN", "CLEAR_ACTIONS", "GOTO_TABLE", "METER"}
                   ELSE {"CLEAR_ACTIONS", "GOTO_TABLE", "METER"})

(* Encode then decode: each ofpact the dialect can express becomes one    *)
(* wire record, those it cannot (the XXX cases of ofpact_to_openflow10,   *)
(* ofp-actions.c:1666) are the only ones left out, the peer accepts the   *)
(* list, and reads back the expressible ofpacts in their order, compat    *)
(* aside (spec 8: note payload length kept, controller ids kept).          *)
EncodeDecode ==
    LET kept == SelectSeq(acts, DialectExpresses) IN
    pc = "done" =>
        /\ Len(wire) = Len(kept)
        /\ back.err = None
        /\ [i \in DOMAIN back.acts |-> Meaning(back.acts[i])]
             = [i \in DOMAIN kept |-> Meaning(kept[i])]

(* Spec scenario 7: a dec_ttl with the single controller id 0 whose      *)
(* compat is NXAST_DEC_TTL or unset is put as the plain NX dec_ttl       *)
(* (ofpact_dec_ttl_to_nxast, ofp-actions.c:1437).                          *)
DecTtlShape ==
    LET kept == SelectSeq(acts, DialectExpresses) IN
    pc # "put" =>
        \A i \in DOMAIN kept :
            (/\ kept[i].type = "DEC_TTL" /\ kept[i].arg = <<0>>
             /\ kept[i].compat \in {"INVALID", "NXAST_DEC_TTL"}
             /\ Version = "OF10")
            => i \in DOMAIN wire /\ wire[i].type = "NXAST_DEC_TTL"

(* A flow dump can be read back: the text ofpacts_format gives for the   *)
(* list splits at its commas outside parentheses into one item per       *)
(* ofpact ("drop" alone for the empty list), and two ofpacts print as the *)
(* same item only if they mean the same, compat aside.                    *)
DumpReadable ==
    LET items == DumpItems(OfpactsFormat(acts)) IN
    IF acts = <<>> THEN items = <<<<"drop">>>>
    ELSE /\ Len(items) = Len(acts)
         /\ \A i, j \in DOMAIN acts :
               items[i] = items[j] => Meaning(acts[i]) = Meaning(acts[j])

=============================================================================
