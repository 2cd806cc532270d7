----------------------------- MODULE LinkRewrite -----------------------------
(***************************************************************************)
(* update-user-guide-links.py: the links of the site are rewritten to      *)
(* where the pages of the user guide have moved.  A moved page holds a     *)
(* notice and, below it, links to what replaces it; the program reads all  *)
(* moved pages, then runs sed over all files once for every page with one  *)
(* destination.  sed rewrites the links below the notices too, and the     *)
(* program may be stopped between two files and run again.                 *)
(***************************************************************************)
EXTENDS Naturals, Sequences, SequencesExt, FiniteSets

CONSTANTS
    Places,        \* pages that can be linked to
    Sites,         \* the lines below the notice of each moved page
    NoLink,        \* a line that REDIRECT_REGEX does not match
    NoNotice,      \* as the only line: the notice shares its line with a text
    MaxComplete,   \* bound: runs that come to their end
    MaxStops       \* bound: runs that are stopped

ASSUME LinkAssumption ==
    /\ IsFiniteSet(Places) /\ "index" \notin Places
    /\ NoLink \notin Places /\ NoNotice \notin Places
    /\ \A s \in Sites : \E pages \in SUBSET Places :
          s \in [pages -> Seq(Places \union {NoLink, NoNotice})]

VARIABLES
    site,       \* history: the lines of the moved pages as they were
    index,      \* a page with a link to every place: where each now leads
    notice,     \* the lines below the notice of each moved page
    pairs,      \* rewrites: pairs of an old and a new path, still to be done
    done,       \* files that sed has passed for the first of them
    running,
    complete, stops

linkVars == <<site, index, notice, pairs, done, running, complete, stops>>

Moved == DOMAIN site

\* The page index and the moved pages.
LinkFiles == Moved \union {"index"}

LinkInit ==
    /\ site \in Sites
    /\ index = [p \in Places |-> p]
    /\ notice = site
    /\ pairs = <<>> /\ done = {}
    /\ running = FALSE
    /\ complete = 0 /\ stops = 0

-------------------------------------------------------------------------------
\* get_destinations_for_doc.
DestinationsOf(p) ==
    IF \E k \in DOMAIN notice[p] : notice[p][k] = NoLink THEN <<>> ELSE notice[p]

\* Faulty variant: pages with several destinations take the first.
RewritesFirst ==
    {[k \in DOMAIN docs |-> <<docs[k], Head(DestinationsOf(docs[k]))>>] :
        docs \in SetToSeqs({p \in Moved : Len(DestinationsOf(p)) >= 1})}

\* find_documents_to_rewrite: ag lists the files in any order.
Rewrites ==
    {[k \in DOMAIN docs |-> <<docs[k], Head(DestinationsOf(docs[k]))>>] :
        docs \in SetToSeqs({p \in Moved : Len(DestinationsOf(p)) = 1})}

\* ag also lists a page whose notice shares its line; lines.index then raises
\* an error, and nothing has been done.
FindDocuments ==
    /\ ~running /\ complete < MaxComplete
    /\ \A p \in Moved : notice[p] # <<NoNotice>>
    /\ pairs' \in Rewrites
    /\ done' = {}
    /\ running' = TRUE
    /\ UNCHANGED <<site, index, notice, complete, stops>>

Rewritten(link) == IF link = Head(pairs)[1] THEN Head(pairs)[2] ELSE link

\* sed rewrites one file; find comes to the files in any order.
Sed(file) ==
    /\ running /\ pairs # <<>> /\ file \in LinkFiles \ done
    /\ IF file = "index"
       THEN /\ index' = [p \in Places |-> Rewritten(index[p])]
            /\ UNCHANGED notice
       ELSE /\ notice' = [notice EXCEPT ![file] = [k \in DOMAIN @ |-> Rewritten(@[k])]]
            /\ UNCHANGED index
    /\ LET all == done \union {file} = LinkFiles
       IN  /\ done' = IF all THEN {} ELSE done \union {file}
           /\ pairs' = IF all THEN Tail(pairs) ELSE pairs
    /\ UNCHANGED <<site, running, complete, stops>>

\* The backups are removed, the program ends.
RemoveBackups ==
    /\ running /\ pairs = <<>>
    /\ running' = FALSE
    /\ complete' = complete + 1
    /\ UNCHANGED <<site, index, notice, pairs, done, stops>>

Stop ==
    /\ running /\ stops < MaxStops
    /\ running' = FALSE
    /\ pairs' = <<>> /\ done' = {}
    /\ stops' = stops + 1
    /\ UNCHANGED <<site, index, notice, complete>>

LinkNext ==
    \/ FindDocuments
    \/ \E file \in LinkFiles : Sed(file)
    \/ RemoveBackups
    \/ Stop

LinkSpec == LinkInit /\ [][LinkNext]_linkVars

-------------------------------------------------------------------------------
(* Properties.                                                             *)

\* The moved pages with one destination, and the pages that a page leads to by
\* way of them, itself included.
Single == {p \in Moved : Len(site[p]) = 1 /\ site[p][1] \in Places}

ClosedUnderMoves(S) == \A q \in S \intersect Single : site[q][1] \in S

Ways(p) ==
    {q \in Places : \A S \in SUBSET Places : p \in S /\ ClosedUnderMoves(S) => q \in S}

\* Does a page lead to itself.
Circular(p) == p \in Single /\ p \in Ways(site[p][1])

(***************************************************************************)
(* Whatever the order of the files, and wherever runs are stopped and      *)
(* started again, a link leads to the page it led to or to one that it     *)
(* moved to, and a link to a page with several destinations, or with one   *)
(* that cannot be read, stays.  One run does not do when a destination has *)
(* itself moved; but the links below the notices are rewritten too, so     *)
(* that every complete run doubles how far a run leads, and n complete     *)
(* runs leave no link to a page that moved to one place if there are less  *)
(* than 2^n such pages and none of them moved in a circle.                 *)
(***************************************************************************)
LinksFollowMoves ==
    /\ \A p \in Places : index[p] \in Ways(p)
    /\ \A p \in Moved : \A k \in DOMAIN notice[p] :
          site[p][k] \in Places => notice[p][k] \in Ways(site[p][k])
    /\ 2^complete > Cardinality(Single) /\ (\A p \in Moved : ~Circular(p)) =>
          \A p \in Places : index[p] \notin Single
=============================================================================
