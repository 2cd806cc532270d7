----------------------------- MODULE MCAccordion -----------------------------
(***************************************************************************)
(* An instance of Accordion for TLC: a container within a container, and a *)
(* link in each.                                                           *)
(***************************************************************************)
EXTENDS Accordion, TLC

CONSTANTS concepts, workloads, pods, overview

Tree == (concepts :> {}) @@ (workloads :> {concepts})
        @@ (pods :> {concepts, workloads}) @@ (overview :> {concepts})
=============================================================================
