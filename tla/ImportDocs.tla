------------------------------ MODULE ImportDocs ------------------------------
(***************************************************************************)
(* update-imported-docs.go: the program that copies documents of other     *)
(* repositories into the site, and the files it leaves behind.             *)
(*                                                                         *)
(* A document is a sequence of blocks of one length: a front-matter block  *)
(* (what titleRegex matches), a level-1 heading, plain text, or a line     *)
(* with a link.  A run may fail in any repository or be killed between any *)
(* two of its writes; maintainers change the files between the runs, and   *)
(* upstream projects theirs at any time.                                   *)
(***************************************************************************)
EXTENDS Naturals, Sequences, SequencesExt

CONSTANTS
    Repos,       \* the config file; generate: it has a generate-command,
                 \* absolute: gen-absolute-links
    Documents,   \* what a source may hold, upstream or once generated
    OldFiles,    \* what a target may hold before the first run
    Titles,      \* front-matter blocks
    Heading,     \* a level-1 heading or an empty line
    Links,       \* links relative to the page or to the root of its repository
    Texts,       \* any other block
    Missing,     \* no such file
    MaxEvents    \* bound: runs, publications and title edits together

ASSUME MaxEventsAssumption == MaxEvents \in Nat

ASSUME ReposAssumption ==
    /\ Repos \in Seq([generate: BOOLEAN, absolute: BOOLEAN,
                      files: Seq([src: STRING, dst: STRING]) \ {<<>>}])
    /\ Repos # <<>>

Absolute(l) == <<"absolute", l>>
Blocks == Titles \union {Heading} \union Links \union Texts
            \union {Absolute(l) : l \in Links}

ASSUME DocumentsAssumption ==
    /\ Documents \subseteq Seq(Blocks)
    /\ OldFiles \subseteq Seq(Blocks)
    /\ Missing \notin Seq(Blocks)

Steps == UNION {{<<r, f>> : f \in DOMAIN Repos[r].files} : r \in DOMAIN Repos}
File(s) == Repos[s[1]].files[s[2]]
Sources == {File(s).src : s \in Steps}
Targets == {File(s).dst : s \in Steps}

\* Repositories are cloned into directories of their own.
ASSUME SourcesAssumption ==
    \A s, t \in Steps : File(s).src = File(t).src => s[1] = t[1]

Before(s, t) == s[1] < t[1] \/ (s[1] = t[1] /\ s[2] < t[2])
AfterInRepo(s) == <<s[1], s[2] + 1>>

After(s) == IF s[2] < Len(Repos[s[1]].files) THEN <<s[1], s[2] + 1>>
                                             ELSE <<s[1] + 1, 1>>

-------------------------------------------------------------------------------
(* Documents.                                                              *)

Title(doc) ==
    IF doc # Missing /\ doc # <<>> /\ Head(doc) \in Titles THEN <<Head(doc)>>
                                                          ELSE <<>>

\* The "^" of h1Regex is the start of the document, not of a line.
ProcessLinks(doc) ==
    LET linked == [i \in DOMAIN doc |->
                     IF doc[i] \in Links THEN Absolute(doc[i]) ELSE doc[i]]
    IN  IF linked # <<>> /\ Head(linked) = Heading THEN Tail(linked) ELSE linked

Processed(r, doc) == IF Repos[r].absolute THEN ProcessLinks(doc) ELSE doc

OverlayTruncates(old, offset, blocks) == SubSeq(old, 1, offset) \o blocks

\* Writing blocks into a file opened without O_TRUNC: what they do not reach
\* stays.
Overlay(old, offset, blocks) ==
    SubSeq(old, 1, offset) \o blocks
        \o SubSeq(old, offset + Len(blocks) + 1, Len(old))

-------------------------------------------------------------------------------
VARIABLES
    upstream,    \* source |-> document in its repository
    clone,       \* source |-> document under /tmp/update_docs
    dst,         \* target |-> document in the site
    pc,          \* where the program is, or how its last run ended
    at,          \* the file of the config it is at: <<repository, file>>
    title,       \* titleBlock
    content,     \* content
    events

vars == <<upstream, clone, dst, pc, at, title, content, events>>
local == <<title, content>>

Running == {"clone", "generate", "read", "title", "content"}
Ended == {"idle", "failed", "done"}

TypeOK ==
    /\ upstream \in [Sources -> Documents \union {Missing}]
    /\ clone \in [Sources -> Documents \union {Missing}]
    /\ dst \in [Targets -> Seq(Blocks) \union {Missing}]
    /\ pc \in Running \union Ended
    /\ pc \in Running => at \in Steps
    /\ title \in Seq(Titles)
    /\ content \in Documents \union {<<>>}
    /\ pc \in {"title", "content"} => content = clone[File(at).src]
    /\ events \in 0..MaxEvents

Init ==
    /\ upstream \in [Sources -> Documents]
    /\ clone = [s \in Sources |-> Missing]
    /\ dst \in [Targets -> OldFiles \union {Missing}]
    /\ pc = "idle"
    /\ at = <<1, 1>>
    /\ title = <<>>
    /\ content = <<>>
    /\ events = 0

Occurs == events < MaxEvents /\ events' = events + 1

\* A run begins with an empty /tmp/update_docs.
Start ==
    /\ pc \in Ended
    /\ Occurs
    /\ clone' = [s \in Sources |-> Missing]
    /\ at' = <<1, 1>>
    /\ pc' = "clone"
    /\ UNCHANGED <<upstream, dst, local>>

OfRepo(r) == {file.src : file \in ToSet(Repos[r].files)}

Clone ==
    /\ pc = "clone"
    /\ clone' = [s \in Sources |-> IF s \in OfRepo(at[1]) THEN upstream[s]
                                                          ELSE clone[s]]
    /\ pc' = IF Repos[at[1]].generate THEN "generate" ELSE "read"
    /\ UNCHANGED <<upstream, dst, at, local, events>>

\* The repository's own command writes what it likes into the clone.
Generate ==
    /\ pc = "generate"
    /\ \E s \in OfRepo(at[1]), doc \in Documents : clone' = [clone EXCEPT ![s] = doc]
    /\ pc' = "read"
    /\ UNCHANGED <<upstream, dst, at, local, events>>

\* The old target gives the title block and may be missing; the source may not.
Read ==
    /\ pc = "read"
    /\ LET file == File(at)
       IN  /\ title' = Title(dst[file.dst])
           /\ IF clone[file.src] = Missing
                THEN pc' = "failed" /\ UNCHANGED content
                ELSE pc' = "title" /\ content' = clone[file.src]
    /\ UNCHANGED <<upstream, clone, dst, at, events>>

Opened(d) == IF dst[d] = Missing THEN <<>> ELSE dst[d]

Write(offset, blocks) ==
    LET d == File(at).dst
    IN  dst' = [dst EXCEPT ![d] = Overlay(Opened(d), offset, blocks)]

\* OpenFile and the first Write.
WriteTitle ==
    /\ pc = "title"
    /\ Write(0, title)
    /\ pc' = "content"
    /\ UNCHANGED <<upstream, clone, at, local, events>>

\* Without gen-absolute-links' test.
WriteUnprocessed ==
    /\ pc = "content"
    /\ Write(Len(title), content)
    /\ at' = After(at)
    /\ pc' = CASE After(at)[1] = at[1]       -> "read"
               [] After(at)[1] > Len(Repos)  -> "done"
               [] OTHER                      -> "clone"
    /\ UNCHANGED <<upstream, clone, local, events>>

\* The file processed and written behind the title; then the next file, the
\* next repository, or the end.
WriteContent ==
    /\ pc = "content"
    /\ Write(Len(title), Processed(at[1], content))
    /\ at' = After(at)
    /\ pc' = CASE After(at)[1] = at[1]       -> "read"
               [] After(at)[1] > Len(Repos)  -> "done"
               [] OTHER                      -> "clone"
    /\ UNCHANGED <<upstream, clone, local, events>>

\* The program exits: git or the command failed, a directory is missing, or
\* somebody interrupted it.
Exit ==
    /\ pc \in Running
    /\ pc' = "failed"
    /\ UNCHANGED <<upstream, clone, dst, at, local, events>>

\* A write that fails, or a program killed within one, leaves a part of it.
CutShort ==
    /\ pc \in {"title", "content"}
    /\ LET blocks == IF pc = "title" THEN title ELSE Processed(at[1], content)
           offset == IF pc = "title" THEN 0 ELSE Len(title)
       IN  \E n \in 0..Len(blocks) : Write(offset, SubSeq(blocks, 1, n))
    /\ pc' = "failed"
    /\ UNCHANGED <<upstream, clone, at, local, events>>

Publish ==
    /\ Occurs
    /\ \E s \in Sources, doc \in Documents \union {Missing} :
          doc # upstream[s] /\ upstream' = [upstream EXCEPT ![s] = doc]
    /\ UNCHANGED <<clone, dst, pc, at, local>>

\* A maintainer gives a page a title or another one.
EditTitle ==
    /\ pc \in Ended
    /\ Occurs
    /\ \E d \in Targets, t \in Titles :
          /\ dst[d] # Missing
          /\ dst' = [dst EXCEPT ![d] = <<t>> \o SubSeq(@, Len(Title(@)) + 1, Len(@))]
    /\ pc' = "idle"
    /\ UNCHANGED <<upstream, clone, at, local>>

Next ==
    \/ Start \/ Clone \/ Generate \/ Read \/ WriteTitle \/ WriteContent
    \/ Exit \/ CutShort \/ Publish \/ EditTitle

Spec == Init /\ [][Next]_vars

-------------------------------------------------------------------------------
(* Properties.                                                             *)

\* The site's page keeps the title block that its maintainers gave it, whatever
\* is imported over it and wherever a run stops, killed in the middle of a
\* write or not: the block is read before the file is opened, and the file is
\* never truncated.
TitleKept ==
    [][\A d \in Targets :
         pc \in Running /\ Title(dst[d]) # <<>> => Title(dst'[d]) = Title(dst[d])]_vars

\* The entry of the config that wrote a target last, of those the run passed.
Passed(d) == {s \in Steps : File(s).dst = d /\ Before(s, at)}
IsLast(s, d) == s \in Passed(d) /\ \A t \in Passed(d) : t = s \/ Before(t, s)

\* The page as one import should leave it, but for what follows it.
Imported(doc, s) ==
    LET body == Processed(s[1], clone[File(s).src])
    IN  {p \in {body} \union {<<t>> \o body : t \in Titles} : IsPrefix(p, doc)}

\* Every target that the run has passed begins with the processed source of
\* the last entry that names it, as cloned at one moment, behind a title or
\* not; also when a later file or repository has made the run fail.  The file
\* the run is at is in between.
PassedAreImported ==
    pc # "idle" =>
      \A d \in Targets, s \in Steps :
        /\ IsLast(s, d)
        /\ at \in Steps => d # File(at).dst
        => Imported(dst[d], s) # {}

\* "Write to new output file": after a run that succeeds a target holds its
\* title and the processed source, and nothing of the page that was there.
ImportReplaces ==
    pc = "done" =>
      \A d \in Targets, s \in Steps :
        IsLast(s, d) => dst[d] \in Imported(dst[d], s)
=============================================================================
