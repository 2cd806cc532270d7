---------------------------- MODULE MCNavigation ----------------------------
(***************************************************************************)
(* Instances for TLC of the navigation of a page of the site and of that   *)
(* of a generated reference page, which has scripts of its own: one of the *)
(* two in each behaviour.                                                  *)
(*                                                                         *)
(* The reference page has sections 1, 5 and 6, of which 5 has no           *)
(* subsections; 2 has a third level below it, and the code of one tab is   *)
(* longer than that of the other.  Offset 1 stands for 50 pixels.          *)
(***************************************************************************)
EXTENDS SiteNav, ScrollNav, TLC

CONSTANTS kubectl, curl, none

VARIABLE reference   \* is it a reference page

allVars == <<navVars, vars, reference>>

MCInit ==
    \/ reference = FALSE /\ NavInit
       /\ tab = NoTab /\ scroll = 0 /\ nav = CheckActiveElement(Blank, NoTab, 0)
       /\ sidebar = 0 /\ scrolled = FALSE /\ hashes = 0 /\ pending = <<>>
       /\ shifted = FALSE /\ moves = 0
    \/ reference = TRUE /\ Init
       /\ page = Loaded(FALSE, "wide") /\ events = 0

MCNext ==
    /\ UNCHANGED reference
    /\ \/ ~reference /\ NavNext /\ UNCHANGED vars
       \/ reference /\ Next /\ UNCHANGED navVars

MCSpec == MCInit /\ [][MCNext]_allVars

PageParent == <<0, 1, 2, 1, 0, 0, 6>>
PageTop ==
    (kubectl :> <<2, 3, 5, 6, 7, 8, 9>>) @@ (curl :> <<2, 4, 5, 7, 8, 10, 11>>)
        @@ (none :> <<2, 3, 4, 5, 6, 7, 8>>)
PageBottom == (kubectl :> 7) @@ (curl :> 9) @@ (none :> 6)
=============================================================================
