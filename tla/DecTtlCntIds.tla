---------------------------- MODULE DecTtlCntIds ----------------------------
(***************************************************************************)
(* dec_ttl_cnt_ids_from_openflow together with the ofpbuf it appends to.  *)
(*                                                                         *)
(* The local pointer ids is taken from ofpact_put_DEC_TTL and points into *)
(* the ofpbuf's current allocation.  Each ofpbuf_put of a controller id    *)
(* may reallocate the buffer (ofpbuf_prealloc_tailroom, lib/ofpbuf.c):     *)
(* the data move to a new block, out->l2 is rebased onto it, and the old   *)
(* block is freed.  The loop condition reads ids->n_controllers on every  *)
(* iteration; ids is refreshed from out->l2 only after the loop.          *)
(*                                                                         *)
(* An allocation is identified by a generation number.  A read through a  *)
(* pointer into a freed generation is undefined: it is modelled as a      *)
(* choice among the values the read can give, the stale n_controllers     *)
(* included.                                                               *)
(***************************************************************************)
EXTENDS Naturals, Sequences

CONSTANTS Requests,   \* the nx_action_cnt_ids records: [n, idsSize, ids, zero]
          Tailrooms,  \* bytes of tailroom left after ofpact_put_DEC_TTL
          MaxCount    \* the largest 16-bit value a freed read is taken to give

None == "none"

\* ofpbuf_prealloc_tailroom grows the buffer to MAX(size, 64) bytes of
\* tailroom when the request does not fit (spec_modelled: lib/ofpbuf.c).
GrowTailroom == 64

VARIABLES req,       \* the wire record being translated
          gen,       \* generation of the ofpbuf's live allocation
          tailroom,  \* bytes free at the end of the live allocation
          idsGen,    \* the generation the local pointer ids points into
          nCtl,      \* ids->n_controllers as stored in the live ofpact
          out,       \* the controller ids appended after the ofpact
          i,         \* the loop index
          error,
          pc

vars == <<req, gen, tailroom, idsGen, nCtl, out, i, error, pc>>

Init ==
    /\ req \in Requests
    /\ gen = 0
    /\ tailroom \in Tailrooms
    /\ idsGen = 0
    /\ nCtl = 0
    /\ out = <<>>
    /\ i = 0
    /\ error = None
    /\ pc = "start"

\* Lines 192-207: put the ofpact, copy n_controllers, check the zero
\* bytes and that the record holds n_controllers ids.
Start ==
    /\ pc = "start"
    /\ idsGen' = gen
    /\ nCtl' = req.n
    /\ \/ /\ ~req.zero
          /\ error' = "NXBRC_MUST_BE_ZERO"
          /\ pc' = "done"
       \/ /\ req.zero
          /\ req.idsSize < 2 * req.n
          /\ error' = "OFPBAC_BAD_LEN"
          /\ pc' = "done"
       \/ /\ req.zero
          /\ req.idsSize >= 2 * req.n
          /\ pc' = "loop"
          /\ UNCHANGED error
    /\ UNCHANGED <<req, gen, tailroom, out, i>>

\* The values a read of ids->n_controllers can give: the live value while
\* ids points into the live allocation, anything once it has been freed.
ReadNControllers == IF idsGen = gen THEN {nCtl} ELSE 0..MaxCount

\* The wire id at index k, and what lies beyond the record's ids.
WireId(k) == IF k < Len(req.ids) THEN req.ids[k + 1] ELSE "beyond"

\* ofpbuf_put(out, &id, 2): reallocate to a new generation when the two
\* bytes do not fit.
Put2 ==
    IF tailroom < 2
    THEN /\ gen' = gen + 1
         /\ tailroom' = GrowTailroom - 2
    ELSE /\ tailroom' = tailroom - 2
         /\ UNCHANGED gen

\* Lines 209-212: the loop condition holds; one id is appended.
LoopBody ==
    /\ pc = "loop"
    /\ i < MaxCount
    /\ \E v \in ReadNControllers : i < v
    /\ Put2
    /\ out' = Append(out, WireId(i))
    /\ i' = i + 1
    /\ UNCHANGED <<req, idsGen, nCtl, error, pc>>

\* Lines 209 and 214-218: the loop condition fails; ids = out->l2 and
\* ofpact_update_len.
LoopExit ==
    /\ pc = "loop"
    /\ \E v \in ReadNControllers : i >= v
    /\ idsGen' = gen
    /\ pc' = "done"
    /\ UNCHANGED <<req, gen, tailroom, nCtl, out, i, error>>

Next == Start \/ LoopBody \/ LoopExit

Spec == Init /\ [][Next]_vars

-----------------------------------------------------------------------------
(* A successful translation leaves the ofpact holding exactly the        *)
(* n_controllers ids it declares, each taken from the wire record: the   *)
(* encoder and the datapath later walk n_controllers entries of cnt_ids. *)
IdsMatchCount ==
    (pc = "done" /\ error = None) =>
        /\ Len(out) = nCtl
        /\ \A k \in 1..Len(out) : out[k] # "beyond"

=============================================================================
