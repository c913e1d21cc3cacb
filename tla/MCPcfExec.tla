------------------------------ MODULE MCPcfExec ------------------------------
(* PcfExec for TLC: replies of distributed and z/OS command servers. *)
EXTENDS PcfExec

CONSTANTS a1, a2

R(last, ok, read) ==
    [type |-> "response", last |-> last, ok |-> ok, empty |-> FALSE,
     info |-> "none", read |-> read]
Bare(last, ok) == [R(last, ok, "ok") EXCEPT !.empty = TRUE]
XR(info) ==
    [type |-> "xr_msg", last |-> TRUE, ok |-> TRUE, empty |-> FALSE,
     info |-> info, read |-> "ok"]

\* One response; one without parameters; an error without parameters before the
\* last response; CMDSCOPE with the last response of two queue managers; a response
\* that cannot be converted; one that is longer than max_length.
MCScript == {
    <<R(TRUE, TRUE, "ok")>>,
    <<Bare(TRUE, TRUE)>>,
    <<Bare(FALSE, FALSE), R(TRUE, TRUE, "ok")>>,
    <<XR("accepted"), R(TRUE, TRUE, "ok"), R(TRUE, TRUE, "ok"), XR("completed")>>,
    <<R(FALSE, TRUE, "warning"), R(TRUE, TRUE, "ok")>>,
    <<R(TRUE, TRUE, "tooLong")>>}
=============================================================================
