------------------------------ MODULE Redirects ------------------------------
(***************************************************************************)
(* The redirects from addresses of the old site (redirects.js): a page     *)
(* whose URL holds the name of a source file or a suffix replaces itself   *)
(* by the page without it, and the script runs again there.  The table of  *)
(* forwarding rules is empty.                                              *)
(*                                                                         *)
(* A URL is a sequence of the tokens that the patterns are made of.        *)
(***************************************************************************)
EXTENDS Naturals, Sequences, SequencesExt, FiniteSets

CONSTANTS
    Urls   \* URLs that a reader may come to

ASSUME UrlsAssumption == Urls \subseteq Seq(STRING)

\* The patterns, in the order in which they are looked for.
OldURLs == << <<"/", "README", ".md">>, <<"/", "README", ".html">>,
              <<"/", "index", ".md">>, <<".html">>, <<".md">> >>

NotFound == <<"404", ".html">>

VARIABLES
    asked,       \* the URL the reader came to
    href,        \* window.location.href
    forwarding,  \* forwardingURL
    round,       \* rounds of the loop that are done
    redirects,   \* how often the page was replaced
    loaded       \* is the script still to run on this page

redirectVars == <<asked, href, forwarding, round, redirects, loaded>>

RedirectInit ==
    /\ asked \in Urls
    /\ href = asked /\ forwarding = asked
    /\ round = 0 /\ redirects = 0
    /\ loaded = TRUE

-------------------------------------------------------------------------------
Holds(url, pattern) == pattern \in SubSeqs(url)

\* Faulty variant: the pattern is replaced by a slash and its suffix.
LookForKeeping ==
    LET pattern == OldURLs[round + 1]
    IN  /\ loaded /\ round < Len(OldURLs)
        /\ forwarding' = IF Holds(forwarding, pattern) /\ ~Holds(forwarding, NotFound)
                         THEN ReplaceFirstSubSeq(<<"/", Last(pattern)>>, pattern, forwarding)
                         ELSE forwarding
        /\ round' = round + 1
        /\ UNCHANGED <<asked, href, redirects, loaded>>

\* One round of the loop: the first occurrence of a pattern is replaced.
LookFor ==
    LET pattern == OldURLs[round + 1]
    IN  /\ loaded /\ round < Len(OldURLs)
        /\ forwarding' = IF Holds(forwarding, pattern) /\ ~Holds(forwarding, NotFound)
                         THEN ReplaceFirstSubSeq(<<"/">>, pattern, forwarding)
                         ELSE forwarding
        /\ round' = round + 1
        /\ UNCHANGED <<asked, href, redirects, loaded>>

\* What the browser loads: all before the fragment.
Document(url) == SubSeq(url, 1, SelectInSeq(url \o <<"#">>, LAMBDA t : t = "#") - 1)

\* The end of the script.  A URL that differs only in its fragment is shown
\* without the page being loaded again.
Replace ==
    /\ loaded /\ round = Len(OldURLs)
    /\ href' = forwarding
    /\ redirects' = IF forwarding # href THEN redirects + 1 ELSE redirects
    /\ loaded' = (Document(forwarding) # Document(href))
    /\ round' = IF loaded' THEN 0 ELSE round
    /\ UNCHANGED <<asked, forwarding>>

RedirectNext == LookFor \/ Replace

RedirectSpec == RedirectInit /\ [][RedirectNext]_redirectVars

-------------------------------------------------------------------------------
(* Properties.                                                             *)

\* How often one of some tokens stands in a URL.
Count(url, tokens) == Cardinality({k \in DOMAIN url : url[k] \in tokens})

(***************************************************************************)
(* The redirects come to an end: there are no more of them than the most   *)
(* frequent suffix occurs in the URL the reader asked for.  They end at a  *)
(* page without any of the old patterns in its address, unless that is the *)
(* page for an address that does not exist, which the script leaves alone  *)
(* from the start.                                                         *)
(***************************************************************************)
RedirectsEnd ==
    /\ redirects <= Count(asked, {".md"}) \/ redirects <= Count(asked, {".html"})
    /\ Holds(asked, NotFound) => forwarding = asked
    /\ ~loaded /\ ~Holds(asked, NotFound) =>
          \A k \in DOMAIN OldURLs : ~Holds(Document(href), OldURLs[k])
=============================================================================
