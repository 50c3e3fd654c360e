------------------------ MODULE MCServiceRegistration ------------------------
(* An instance of ServiceRegistration for TLC.                             *)
EXTENDS ServiceRegistration
TwoStarts == << "start1", "start2" >>
Offers == {[url |-> "u", price |-> 1], [url |-> "u", price |-> 2]}
==============================================================================
