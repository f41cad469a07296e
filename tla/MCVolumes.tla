----------------------------- MODULE MCVolumes ------------------------------
(***************************************************************************)
(* What a test provisions.  A behaviour builds objects with one kind of    *)
(* builder, or is the life of a volume (using is Nil) with two replicas    *)
(* and two master nodes.                                                   *)
(***************************************************************************)
EXTENDS Volumes, Builders

TwoMasters == <<"m1", "m2">>

ProvisionInit ==
  /\ Init
  /\ \/ using = Nil
     \/ using \in Parts /\ mode = "Immediate" /\ major = 1
  /\ BuildersInit

ProvisionNext ==
  \/ using = Nil /\ Next /\ UNCHANGED bvars
  \/ BuildersNext /\ UNCHANGED vars

ProvisionVars == <<vars, bvars>>
ProvisionSpec ==
  ProvisionInit /\ [][ProvisionNext]_ProvisionVars /\ WF_ProvisionVars(Step /\ UNCHANGED bvars)
=============================================================================
