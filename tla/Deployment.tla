------------------------------ MODULE Deployment -----------------------------
(***************************************************************************)
(* The docker-compose.yml that the configuration generator of the          *)
(* inference broker writes (dockerComposeTemplate), and what docker does   *)
(* with it: containers start when those they depend on are healthy, and    *)
(* need the host ports they publish.  The broker and the event process are *)
(* healthy only with a configuration file they can start with.             *)
(***************************************************************************)
EXTENDS Integers, FiniteSets, Functions

VARIABLE container   \* what docker has made of each service

AllServices == {"hardhat", "mysql", "nginx", "broker", "event", "prometheus-init",
                "prometheus", "grafana", "node-exporter"}
Options     == [test : BOOLEAN, nginx : BOOLEAN, monitoring : BOOLEAN]

If(condition, set) == IF condition THEN set ELSE {}

Services(o) ==
  {"mysql", "broker", "event"} \cup If(o.test, {"hardhat"}) \cup If(o.nginx, {"nginx"})
    \cup If(o.monitoring, {"prometheus-init", "prometheus", "grafana", "node-exporter"})

(* Mutant: the proxy waits for the broker it forwards to.                  *)
DependsOnBackend(o) ==
  {<< "broker", "mysql" >>, << "event", "broker" >>}
    \cup If(o.nginx, {<< "broker", "nginx" >>, << "event", "nginx" >>, << "nginx", "broker" >>})

(* depends_on: pairs of a service and one that it waits for.  The nginx    *)
(* service names the broker in its configuration, but does not wait for it.*)
DependsOn(o) ==
  {<< "broker", "mysql" >>, << "event", "broker" >>}
    \cup If(o.test, {<< "broker", "hardhat" >>})
    \cup If(o.nginx, {<< "broker", "nginx" >>, << "event", "nginx" >>})
    \cup If(o.monitoring, {<< "prometheus", "prometheus-init" >>, << "grafana", "prometheus" >>,
                           << "node-exporter", "prometheus" >>})

(* The services that publish a port; HTTP is the proxy's or the broker's.  *)
Publishers(o) ==
  {"mysql", IF o.nginx THEN "nginx" ELSE "broker"} \cup If(o.test, {"hardhat"})
    \cup If(o.monitoring, {"prometheus", "grafana"})

(* A compose file: its options, the port of each publisher, the path that  *)
(* is mounted as the configuration, and the project in its network's name. *)
Compose(o, ports, mount, project) ==
  [options |-> o, ports |-> ports, mount |-> mount, project |-> project]

(* NETWORK: with the test option both processes use the hardhat network.   *)
NETWORK(o) == IF o.test THEN "ethereumHardhat" ELSE "ethereum0g"

(* docker compose up creates every service of the file.                    *)
Up(c) ==
  /\ \A s \in AllServices : container[s] = "absent"
  /\ container' = [s \in AllServices |-> IF s \in Services(c.options) THEN "created" ELSE "absent"]

PortFree(s, c) ==
  \A t \in DOMAIN c.ports : container[t] \in {"running", "healthy"} => c.ports[t] # c.ports[s]

StartContainer(s, c) ==
  /\ container[s] = "created"
  /\ \A e \in DependsOn(c.options) : e[1] = s => container[e[2]] = "healthy"
  /\ s \in DOMAIN c.ports => PortFree(s, c)
  /\ container' = [container EXCEPT ![s] = "running"]

(* prometheus-init has nothing to pass but its end.                        *)
BecomeHealthy(s, loadable) ==
  /\ container[s] = "running"
  /\ s \in {"broker", "event"} => loadable
  /\ container' = [container EXCEPT ![s] = "healthy"]
==============================================================================
