---------------------------- MODULE MCContentTools ----------------------------
(***************************************************************************)
(* Instances for TLC of the two programs that maintainers run over the     *)
(* content of the site, one of them in each behaviour: the importer and    *)
(* the rewriting of links to the user guide, there with three pages that   *)
(* may have moved, to each other or to a fourth, or have been split.       *)
(***************************************************************************)
EXTENDS MCImportDocs, LinkRewrite

CONSTANTS pods, labels, volumes, secrets

VARIABLE importing

allVars == <<vars, linkVars, importing>>

NoImport ==
    /\ upstream = [s \in Sources |-> Missing] /\ clone = upstream
    /\ dst = [d \in Targets |-> Missing]
    /\ pc = "idle" /\ at = <<1, 1>> /\ title = <<>> /\ content = <<>>
    /\ events = 0
NoLinks ==
    /\ site = <<>> /\ index = [p \in Places |-> p] /\ notice = site
    /\ pairs = <<>> /\ done = {} /\ running = FALSE /\ complete = 0 /\ stops = 0

MCInit ==
    \/ importing = TRUE /\ Init /\ NoLinks
    \/ importing = FALSE /\ NoImport /\ LinkInit

MCNext ==
    /\ UNCHANGED importing
    /\ \/ importing /\ Next /\ UNCHANGED linkVars
       \/ ~importing /\ LinkNext /\ UNCHANGED vars

MCSpec == MCInit /\ [][MCNext]_allVars

Lines == {<<>>, <<NoNotice>>, <<NoLink>>, <<pods, labels>>}
            \union {<<p>> : p \in {pods, labels, volumes, secrets}}
MCSites == [{pods, labels, volumes} -> Lines]
=============================================================================
