\* dec_ttl_cnt_ids_from_openflow with ofpbuf reallocation in the id loop.
CONSTANTS
    Requests <- MCRequests
    Tailrooms = {0, 2, 4}
    MaxCount = 4
SPECIFICATION Spec
INVARIANT IdsMatchCount
CHECK_DEADLOCK FALSE
