-------------------------- MODULE MCConfigGenerator --------------------------
(* An instance of ConfigGenerator for TLC.                                 *)
EXTENDS ConfigGenerator

Names    == {<< "conf", "local.yml" >>}
Chain    == [url |-> "http://h", keys |-> << "7", "YOUR_X" >>]
Template == [url |-> "", keys |-> << "YOUR_X" >>]
Only0g(n) == [m \in Networks |-> IF m = "ethereum0g" THEN n ELSE None]

(* config.yml as it is in the repository.                                  *)
Shipped ==
  [text |-> [f \in Texts |-> CASE f = "contractAddress" -> "abc" [] f = "chatCacheExpiration" -> "20m"
                               [] f = "secret" -> "" [] OTHER -> "<x>"],
   networks |-> Only0g([url |-> "http://h", keys |-> << "<x>" >>]), monitor |-> FALSE]

Complete ==
  [f \in Texts |-> IF f \in URLs THEN "http://h:8080" ELSE IF f \in Prices THEN "'7'"
                   ELSE IF f = "model" THEN "YOUR_X" ELSE ""]
Partial ==
  [f \in Texts |-> CASE f = "targetUrl" -> "http://h" [] f = "inputPrice" -> "7"
                     [] f = "outputPrice" -> "<x>" [] f \in {"model", "secret"} -> "YOUR_X" [] OTHER -> ""]
(* A file with both networks and a model that was never filled in; one     *)
(* with placeholders of its own, whose network lost its URL and still has  *)
(* a template's key.                                                       *)
Existing ==
  {[text |-> Complete, networks |-> [n \in Networks |-> Chain], monitor |-> TRUE],
   [text |-> Partial, networks |-> Only0g(Template), monitor |-> FALSE]}
==============================================================================
