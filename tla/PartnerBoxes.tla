---------------------------- MODULE PartnerBoxes ----------------------------
(***************************************************************************)
(* The boxes of the partners page (partner-script.js): a table of partners *)
(* is sorted by name, and for each in turn a box is added to the container *)
(* of its type.  The five containers are looked up beforehand; the page of *)
(* this repository that includes the script has none of them.              *)
(***************************************************************************)
EXTENDS Naturals, Sequences, SequencesExt

CONSTANTS
    Tables,   \* tables of partners: sequences of names, in code order, and types
    PagesOf   \* sets of containers that a page that includes the script has

ASSUME TablesAssumption == Tables \subseteq Seq([name: Nat, type: 0..4])

ContainerIds == {"isv", "serv", "kcsp", "dist", "ktp"}

VARIABLES
    partners,   \* the table, sorted in place
    present,    \* the containers found on the page
    sorted,     \* has the table been sorted
    boxes,      \* the partners shown in each container
    current,    \* the partners looped over so far
    broken      \* the script ended in a TypeError

partnerVars == <<partners, present, sorted, boxes, current, broken>>

PartnersInit ==
    /\ partners \in Tables
    /\ present \in PagesOf
    /\ sorted = FALSE
    /\ boxes = [c \in ContainerIds |-> <<>>]
    /\ current = 0
    /\ broken = FALSE

-------------------------------------------------------------------------------
\* Any order that the comparison allows: the language leaves the order of equal
\* names to the browser.
SortPartners ==
    /\ ~sorted
    /\ \E order \in SetToSeqs(DOMAIN partners) :
          /\ \A j, k \in DOMAIN order :
                j < k => partners[order[j]].name <= partners[order[k]].name
          /\ partners' = [k \in DOMAIN order |-> partners[order[k]]]
    /\ sorted' = TRUE
    /\ UNCHANGED <<present, boxes, current, broken>>

ContainerOf(type) ==
    CASE type = 0 -> "isv"
      [] type = 1 -> "serv"
      [] type = 2 -> "kcsp"
      [] type = 3 -> "dist"
      [] type = 4 -> "ktp"

Looping == sorted /\ ~broken /\ current < Len(partners)

\* Faulty variant: a missing container is passed over.
AddBoxOrSkip ==
    LET partner == partners[current + 1]
        container == ContainerOf(partner.type)
    IN  /\ Looping
        /\ boxes' = IF container \in present
                    THEN [boxes EXCEPT ![container] = Append(@, partner)]
                    ELSE boxes
        /\ current' = current + 1
        /\ UNCHANGED <<partners, present, sorted, broken>>

\* One round of the loop.  appendChild of null ends the script.
AddBox ==
    LET partner == partners[current + 1]
        container == ContainerOf(partner.type)
    IN  /\ Looping
        /\ IF container \in present
           THEN /\ boxes' = [boxes EXCEPT ![container] = Append(@, partner)]
                /\ current' = current + 1
                /\ UNCHANGED broken
           ELSE /\ broken' = TRUE
                /\ UNCHANGED <<boxes, current>>
        /\ UNCHANGED <<partners, present, sorted>>

PartnersNext == SortPartners \/ AddBox

PartnersSpec == PartnersInit /\ [][PartnersNext]_partnerVars

-------------------------------------------------------------------------------
(* Properties.                                                             *)

\* The partners of a container's type among the first k.
Among(c, k) == {j \in 1..k : ContainerOf(partners[j].type) = c}

(***************************************************************************)
(* At any time every container lists, by name, partners of its type and    *)
(* leaves out none of those before the partner that the script has come    *)
(* to: the j-th partner is shown in its container behind as many as there  *)
(* are of its type before it.  And when a container is missing no partner  *)
(* is shown that comes after the first one of its type, in whatever        *)
(* container.                                                              *)
(***************************************************************************)
PartnersPlaced ==
    /\ \A c \in ContainerIds :
          /\ Len(boxes[c]) = Cardinality(Among(c, current))
          /\ \A j \in Among(c, current) :
                boxes[c][Cardinality(Among(c, j))] = partners[j]
    /\ sorted => \A j, k \in DOMAIN partners :
                    j < k => partners[j].name <= partners[k].name
    /\ \A c \in ContainerIds \ present : boxes[c] = <<>>
=============================================================================
