----------------------------- MODULE MCDeployment -----------------------------
EXTENDS Deployment

(* Release 2 adds a migration and a version of a profile; release 3 changes *)
(* the definition of a version that is there, and cannot be deployed.       *)
MCScripts == <<2, 3, 3>>
MCProfiles ==
  << [p \in {"v1"} |-> "time"],
     [p \in {"v1", "v2"} |-> IF p = "v1" THEN "time" ELSE "consider"],
     [p \in {"v1", "v2"} |-> "changed"] >>
===============================================================================
