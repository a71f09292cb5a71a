------------------------------- MODULE MCJobs -------------------------------
(***************************************************************************)
(* A delayed job with a handler, which may also be asked for beyond the    *)
(* scheduling horizon, and one whose type only begins like the handler's.  *)
(***************************************************************************)
EXTENDS Jobs

MCRequests == {[job |-> "mail", type |-> <<"mail">>, delay |-> 1],
               [job |-> "mail", type |-> <<"mail">>, delay |-> 3],
               [job |-> "other", type |-> <<"mail", "eu">>, delay |-> 0],
               [job |-> "other", type |-> <<>>, delay |-> -1]}
MCHandled == {<<"mail">>}
=============================================================================
