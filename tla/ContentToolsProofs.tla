--------------------------- MODULE ContentToolsProofs ---------------------------
(***************************************************************************)
(* Of the two programs that maintainers run over the content of the site:  *)
(* that an import keeps the title block of a page, for every config file,  *)
(* every document, and every place where a run may stop; and that the      *)
(* rewriting of links makes a link lead where its page went, whatever      *)
(* moved where, for every order of the files and any stops and reruns.     *)
(***************************************************************************)
EXTENDS ImportDocs, LinkRewrite, SequenceTheorems, FiniteSetTheorems,
        FunctionTheorems, TLAPS

\* The title block that the program holds while a file is open is the one of
\* that file, before and after it has written the block.
TitleRead ==
    pc \in {"title", "content"} => title = Title(dst[File(at).dst])

IInv == TypeOK /\ TitleRead

-------------------------------------------------------------------------------
(* Sequences and documents.                                                *)

LEMMA OverlayLemma ==
    ASSUME NEW old \in Seq(Blocks), NEW blocks \in Seq(Blocks),
           NEW offset \in 0..Len(old)
    PROVE  /\ Overlay(old, offset, blocks) \in Seq(Blocks)
           /\ offset = 0 /\ blocks = <<>> => Overlay(old, offset, blocks) = old
           /\ offset > 0 => /\ Overlay(old, offset, blocks) # <<>>
                            /\ Overlay(old, offset, blocks)[1] = old[1]
           /\ offset = 0 /\ blocks # <<>> =>
                /\ Overlay(old, offset, blocks) # <<>>
                /\ Overlay(old, offset, blocks)[1] = blocks[1]
  <1> DEFINE front == SubSeq(old, 1, offset)
             rest == SubSeq(old, offset + Len(blocks) + 1, Len(old))
             both == front \o blocks
             all == both \o rest
             n == Len(blocks)
  <1>0. n \in Nat /\ Len(old) \in Nat /\ offset \in Nat
    BY LenProperties
  <1>1. front \in Seq(Blocks) /\ Len(front) = offset
        /\ \A i \in 1..offset : front[i] = old[i]
    <2>1. \A i \in 1..offset : old[i] \in Blocks
      BY <1>0, ElementOfSeq
    <2>2. QED
      BY <1>0, <2>1, SubSeqProperties
  <1>2. rest \in Seq(Blocks)
    <2>1. \A i \in (offset + n + 1)..Len(old) : old[i] \in Blocks
      BY <1>0, ElementOfSeq
    <2> HIDE DEF n
    <2>2. SubSeq(old, offset + n + 1, Len(old)) \in Seq(Blocks)
      BY <1>0, <2>1, SubSeqProperties
    <2>3. QED
      BY <2>2 DEF n
  <1>3. Overlay(old, offset, blocks) = all
    BY DEF Overlay
  <1>4. offset = 0 /\ blocks = <<>> => all = old
    <2>1. SUFFICES ASSUME offset = 0, blocks = <<>> PROVE all = old
      OBVIOUS
    <2>2. rest = old
      BY <2>1, SubSeqFull
    <2>3. front = <<>>
      BY <2>1, <1>1, EmptySeq
    <2> HIDE DEF rest, front
    <2>4. QED
      BY <2>1, <2>2, <2>3, ConcatEmptySeq
  <1> HIDE DEF front, rest
  <1>5. both \in Seq(Blocks) /\ Len(both) = offset + n
        /\ \A i \in 1..(offset + n) :
              both[i] = IF i <= offset THEN front[i] ELSE blocks[i - offset]
    BY <1>1, ConcatProperties
  <1> HIDE DEF both
  <1>6. all \in Seq(Blocks)
        /\ \A i \in 1..(offset + n) : all[i] = both[i]
        /\ Len(all) \in Nat /\ Len(all) >= offset + n
    <2>1. all \in Seq(Blocks) /\ Len(all) = Len(both) + Len(rest)
          /\ \A i \in 1..(Len(both) + Len(rest)) :
                all[i] = IF i <= Len(both) THEN both[i] ELSE rest[i - Len(both)]
      BY <1>2, <1>5, ConcatProperties
    <2>2. Len(rest) \in Nat
      BY <1>2, LenProperties
    <2> HIDE DEF all, n
    <2>3. QED
      BY <1>0, <1>5, <2>1, <2>2
  <1>7. blocks # <<>> => n > 0
    BY <1>0, EmptySeq
  <1> HIDE DEF all, n
  <1>8. Len(all) > 0 => all # <<>>
    BY <1>6, EmptySeq
  <1>9. offset > 0 => all # <<>> /\ all[1] = old[1]
    BY <1>0, <1>1, <1>5, <1>6, <1>8
  <1>10. offset = 0 /\ blocks # <<>> => all # <<>> /\ all[1] = blocks[1]
    BY <1>0, <1>5, <1>6, <1>7, <1>8
  <1>11. QED
    BY <1>3, <1>4, <1>6, <1>9, <1>10

LEMMA ProcessedType ==
    ASSUME NEW r \in DOMAIN Repos, NEW doc \in Seq(Blocks)
    PROVE  Processed(r, doc) \in Seq(Blocks)
  <1> DEFINE linked == [i \in DOMAIN doc |->
                IF doc[i] \in Links THEN Absolute(doc[i]) ELSE doc[i]]
  <1>1. linked \in Seq(Blocks)
    <2>1. \A i \in 1..Len(doc) :
             (IF doc[i] \in Links THEN Absolute(doc[i]) ELSE doc[i]) \in Blocks
      BY DEF Blocks
    <2>2. QED
      BY <2>1, IsASeq
  <1>2. linked # <<>> => Tail(linked) \in Seq(Blocks)
    BY <1>1, HeadTailProperties
  <1>3. QED
    BY <1>1, <1>2 DEF Processed, ProcessLinks

LEMMA TitleType ==
    ASSUME NEW doc \in Seq(Blocks) \union {Missing}
    PROVE  Title(doc) \in Seq(Titles) /\ Title(doc) \in Seq(Blocks)
  <1>1. CASE Title(doc) = <<>>
    BY <1>1, EmptySeq
  <1>2. CASE Title(doc) # <<>>
    <2>1. Head(doc) \in Titles /\ Title(doc) = <<Head(doc)>>
      BY <1>2 DEF Title
    <2>2. \A t \in Titles : <<t>> \in Seq(Titles) /\ <<t>> \in Seq(Blocks)
      BY DEF Blocks
    <2>3. QED
      BY <2>1, <2>2
  <1>3. QED
    BY <1>1, <1>2

\* The entries of the config file and the step from one to the next.
LEMMA StepsLemma ==
    ASSUME NEW s \in Steps
    PROVE  /\ s[1] \in DOMAIN Repos
           /\ File(s).src \in Sources /\ File(s).dst \in Targets
           /\ After(s)[1] = s[1] \/ After(s)[1] <= Len(Repos) => After(s) \in Steps
  <1> DEFINE Entry == [src: STRING, dst: STRING]
             Repo == [generate: BOOLEAN, absolute: BOOLEAN,
                      files: Seq(Entry) \ {<<>>}]
  <1>1. PICK r \in DOMAIN Repos : \E f \in DOMAIN Repos[r].files : s = <<r, f>>
    BY DEF Steps
  <1>1a. PICK f \in DOMAIN Repos[r].files : s = <<r, f>>
    BY <1>1
  <1>2. Repos \in Seq(Repo)
    BY ReposAssumption
  <1>3. Len(Repos) \in Nat /\ DOMAIN Repos = 1..Len(Repos)
    BY <1>2, LenProperties
  <1>4. \A k \in DOMAIN Repos : /\ Repos[k].files \in Seq(Entry)
                                /\ Repos[k].files # <<>>
    <2>1. \A k \in DOMAIN Repos : Repos[k] \in Repo
      BY <1>2, <1>3, ElementOfSeq
    <2>2. QED
      BY <2>1
  <1> HIDE DEF Entry, Repo
  <1>5. \A k \in DOMAIN Repos : /\ Len(Repos[k].files) \in Nat \ {0}
                                /\ DOMAIN Repos[k].files = 1..Len(Repos[k].files)
    BY <1>4, LenProperties, EmptySeq
  <1>6. After(s)[1] = s[1] \/ After(s)[1] <= Len(Repos) => After(s) \in Steps
    <2>1. CASE f < Len(Repos[r].files)
      <3>1. After(s) = <<r, f + 1>> /\ f + 1 \in DOMAIN Repos[r].files
        BY <1>1a, <1>5, <2>1 DEF After
      <3>2. QED
        BY <3>1, <1>1a DEF Steps
    <2>2. CASE ~ (f < Len(Repos[r].files))
      <3>1. After(s) = <<r + 1, 1>>
        BY <1>1a, <2>2 DEF After
      <3>2. r + 1 # r
        BY <1>1, <1>3
      <3>3. r + 1 <= Len(Repos) => r + 1 \in DOMAIN Repos
        BY <1>1, <1>3
      <3>4. r + 1 \in DOMAIN Repos => 1 \in DOMAIN Repos[r + 1].files
        BY <1>5
      <3>5. r + 1 \in DOMAIN Repos => <<r + 1, 1>> \in Steps
        BY <3>4 DEF Steps
      <3>6. QED
        BY <3>1, <3>2, <3>3, <3>5, <1>1a
    <2>3. QED
      BY <2>1, <2>2
  <1>7. QED
    BY <1>1a, <1>6 DEF Sources, Targets

LEMMA FirstStep == <<1, 1>> \in Steps
  <1> DEFINE Entry == [src: STRING, dst: STRING]
             Repo == [generate: BOOLEAN, absolute: BOOLEAN,
                      files: Seq(Entry) \ {<<>>}]
  <1>1. Repos \in Seq(Repo) /\ Repos # <<>>
    BY ReposAssumption
  <1>2. 1 \in DOMAIN Repos /\ Repos[1] \in Repo
    <2> HIDE DEF Repo
    <2>1. Len(Repos) \in Nat /\ Len(Repos) # 0 /\ DOMAIN Repos = 1..Len(Repos)
      BY <1>1, EmptySeq, LenProperties
    <2>2. 1 \in 1..Len(Repos)
      BY <2>1
    <2>3. QED
      BY <1>1, <2>1, <2>2, ElementOfSeq
  <1>3. Repos[1].files \in Seq(Entry) /\ Repos[1].files # <<>>
    BY <1>2
  <1> HIDE DEF Entry, Repo
  <1>4. 1 \in DOMAIN Repos[1].files
    BY <1>3, EmptySeq, LenProperties
  <1>5. QED
    BY <1>2, <1>4 DEF Steps

-------------------------------------------------------------------------------
(* What a write does to the file that is open.                             *)

\* Blocks written behind the title, or the title or a part of it written over
\* the title, leave a file with the title it had.
LEMMA WriteKeeps ==
    ASSUME TypeOK, TitleRead, pc \in {"title", "content"},
           NEW blocks \in Seq(Blocks), NEW offset,
           \/ offset = Len(title)
           \/ offset = 0 /\ (blocks = <<>> \/ blocks = title),
           Write(offset, blocks)
    PROVE  /\ dst' \in [Targets -> Seq(Blocks) \union {Missing}]
           /\ \A d \in Targets : Title(dst[d]) # <<>> => Title(dst'[d]) = Title(dst[d])
           /\ offset = 0 /\ (blocks = <<>> \/ blocks = title)
                => Title(dst'[File(at).dst]) = title
  <1> DEFINE d == File(at).dst
             old == Opened(d)
             new == Overlay(old, offset, blocks)
  <1>1. d \in Targets /\ dst[d] \in Seq(Blocks) \union {Missing}
        /\ title = Title(dst[d])
    BY StepsLemma DEF TypeOK, Running, TitleRead
  <1>2. old \in Seq(Blocks) /\ Title(old) = title
    BY <1>1, EmptySeq, DocumentsAssumption DEF Opened, Title
  <1>3. dst' = [dst EXCEPT ![d] = new]
    BY DEF Write
  <1> HIDE DEF d, old
  <1>4. \/ title = <<>> /\ Len(title) = 0
        \/ /\ title = <<old[1]>> /\ Len(title) = 1 /\ old # <<>> /\ Len(old) >= 1
           /\ old[1] \in Titles
    BY <1>2, EmptySeq, LenProperties, DocumentsAssumption DEF Title
  <1>5. offset \in 0..Len(old)
    BY <1>2, <1>4, LenProperties
  <1>6. /\ new \in Seq(Blocks)
        /\ offset = 0 /\ blocks = <<>> => new = old
        /\ offset > 0 => new # <<>> /\ new[1] = old[1]
        /\ offset = 0 /\ blocks # <<>> => new # <<>> /\ new[1] = blocks[1]
    BY <1>2, <1>5, OverlayLemma
  <1> HIDE DEF new
  <1>7. new # Missing /\ (new # <<>> => Head(new) = new[1])
    BY <1>6, DocumentsAssumption
  <1>8. title # <<>> => Title(new) = title
    <2>1. SUFFICES ASSUME title # <<>> PROVE Title(new) = title
      OBVIOUS
    <2>2. title = <<old[1]>> /\ Len(title) = 1 /\ old[1] \in Titles
      BY <1>4, <2>1
    <2>3. title[1] = old[1]
      BY <2>2
    <2>4. \/ offset > 0
          \/ offset = 0 /\ blocks = <<>>
          \/ offset = 0 /\ blocks = title
      BY <2>2
    <2>5. CASE offset = 0 /\ blocks = <<>>
      BY <2>5, <1>2, <1>6
    <2>6. CASE offset > 0 \/ (offset = 0 /\ blocks = title)
      <3>1. new # <<>> /\ new[1] = old[1]
        BY <2>1, <2>3, <2>6, <1>6
      <3>2. QED
        BY <3>1, <2>2, <1>7 DEF Title
    <2>7. QED
      BY <2>4, <2>5, <2>6
  <1>9. offset = 0 /\ (blocks = <<>> \/ blocks = title) => Title(new) = title
    BY <1>2, <1>6, <1>8
  <1>10. dst' \in [Targets -> Seq(Blocks) \union {Missing}]
    BY <1>3, <1>6 DEF TypeOK
  <1>11. dst'[d] = new /\ \A e \in Targets : e # d => dst'[e] = dst[e]
    BY <1>1, <1>3 DEF TypeOK
  <1>12. \A e \in Targets : Title(dst[e]) # <<>> => Title(dst'[e]) = Title(dst[e])
    BY <1>1, <1>8, <1>11
  <1>13. QED
    BY <1>9, <1>10, <1>11, <1>12 DEF d

\* Also a write that is cut short.
LEMMA CutShortKeeps ==
    ASSUME TypeOK, TitleRead, CutShort
    PROVE  /\ dst' \in [Targets -> Seq(Blocks) \union {Missing}]
           /\ \A d \in Targets : Title(dst[d]) # <<>> => Title(dst'[d]) = Title(dst[d])
  <1> DEFINE blocks == IF pc = "title" THEN title ELSE Processed(at[1], content)
             offset == IF pc = "title" THEN 0 ELSE Len(title)
  <1>1. pc \in {"title", "content"} /\ at \in Steps
    BY DEF CutShort, TypeOK, Running
  <1>2. PICK n \in 0..Len(blocks) : Write(offset, SubSeq(blocks, 1, n))
    BY DEF CutShort
  <1>3. title = Title(dst[File(at).dst]) /\ title \in Seq(Blocks)
    BY <1>1, StepsLemma, TitleType DEF TypeOK, TitleRead
  <1>4. Processed(at[1], content) \in Seq(Blocks)
    BY <1>1, StepsLemma, ProcessedType, DocumentsAssumption, EmptySeq DEF TypeOK
  <1>5. blocks \in Seq(Blocks)
    BY <1>3, <1>4
  <1>6. SubSeq(blocks, 1, n) \in Seq(Blocks)
    <2> HIDE DEF blocks
    <2>1. Len(blocks) \in Nat /\ n \in Nat
      BY <1>5, LenProperties
    <2>2. \A i \in 1..n : blocks[i] \in Blocks
      BY <1>5, <2>1, ElementOfSeq
    <2>3. QED
      BY <2>1, <2>2, SubSeqProperties
  <1>7. pc = "title" => SubSeq(blocks, 1, n) = <<>> \/ SubSeq(blocks, 1, n) = title
    <2>1. SUFFICES ASSUME pc = "title"
                   PROVE  SubSeq(title, 1, n) = <<>> \/ SubSeq(title, 1, n) = title
      OBVIOUS
    <2>2. Len(title) \in {0, 1}
      BY <1>3, EmptySeq DEF Title
    <2>3. n \in 0..Len(title)
      BY <2>1
    <2>4. n = 0 \/ n = Len(title)
      BY <2>2, <2>3
    <2>5. QED
      BY <2>4, <1>3, SubSeqFull, SubSeqEmpty
  <1>8. offset = Len(title) \/ (offset = 0 /\ pc = "title")
    OBVIOUS
  <1> HIDE DEF blocks, offset
  <1>9. QED
    BY <1>1, <1>2, <1>6, <1>7, <1>8, WriteKeeps

-------------------------------------------------------------------------------
(* The invariant.                                                          *)

LEMMA InitIInv == Init => IInv
  <1> SUFFICES ASSUME Init PROVE IInv
    OBVIOUS
  <1>1. dst \in [Targets -> Seq(Blocks) \union {Missing}]
    BY DocumentsAssumption DEF Init
  <1>2. pc = "idle" /\ title \in Seq(Titles) /\ content = <<>>
    BY EmptySeq DEF Init
  <1>3. QED
    BY <1>1, <1>2, MaxEventsAssumption
       DEF Init, IInv, TypeOK, TitleRead, Running, Ended

\* Every step keeps the types, and the title block with the open file.
LEMMA NextIInv == IInv /\ [Next]_vars => IInv'
  <1> SUFFICES ASSUME IInv, [Next]_vars PROVE IInv'
    OBVIOUS
  <1> USE DEF Running, Ended
  <1>0. TypeOK /\ TitleRead
    BY DEF IInv
  <1>1. pc \in Running => /\ at[1] \in DOMAIN Repos
                          /\ File(at).src \in Sources /\ File(at).dst \in Targets
    BY <1>0, StepsLemma DEF TypeOK
  <1>2. CASE Start
    BY <1>0, <1>2, FirstStep, MaxEventsAssumption
       DEF Start, Occurs, local, IInv, TypeOK, TitleRead
  <1>3. CASE Clone
    <2>1. clone' \in [Sources -> Documents \union {Missing}]
      BY <1>0, <1>3 DEF Clone, TypeOK
    <2>2. QED
      BY <1>0, <1>3, <2>1 DEF Clone, local, IInv, TypeOK, TitleRead
  <1>4. CASE Generate
    <2>1. clone' \in [Sources -> Documents \union {Missing}]
      BY <1>0, <1>4 DEF Generate, TypeOK
    <2>2. QED
      BY <1>0, <1>4, <2>1 DEF Generate, local, IInv, TypeOK, TitleRead
  <1>5. CASE Read
    <2>1. title' = Title(dst[File(at).dst]) /\ title' \in Seq(Titles)
      BY <1>0, <1>1, <1>5, TitleType DEF Read, TypeOK
    <2>2. clone[File(at).src] \in Documents \union {Missing}
      BY <1>0, <1>1, <1>5 DEF Read, TypeOK
    <2>3. QED
      BY <1>0, <1>5, <2>1, <2>2 DEF Read, IInv, TypeOK, TitleRead
  <1>6. CASE WriteTitle
    <2>1. title \in Seq(Blocks) /\ pc \in {"title", "content"} /\ Write(0, title)
      BY <1>0, <1>1, <1>6, TitleType DEF WriteTitle, TypeOK, TitleRead
    <2>2. /\ dst' \in [Targets -> Seq(Blocks) \union {Missing}]
          /\ Title(dst'[File(at).dst]) = title
      BY <1>0, <2>1, WriteKeeps
    <2>3. QED
      BY <1>0, <1>6, <2>2 DEF WriteTitle, local, IInv, TypeOK, TitleRead
  <1>7. CASE WriteContent
    <2>1. content \in Seq(Blocks)
      BY <1>0, <1>7, DocumentsAssumption, EmptySeq DEF TypeOK
    <2>2. Processed(at[1], content) \in Seq(Blocks)
      BY <1>1, <1>7, <2>1, ProcessedType DEF WriteContent
    <2>3. dst' \in [Targets -> Seq(Blocks) \union {Missing}]
      BY <1>0, <1>7, <2>2, WriteKeeps DEF WriteContent
    <2>4. pc' \in {"read", "done", "clone"}
      BY <1>7 DEF WriteContent
    <2>5. pc' \in Running => at' \in Steps
      <3>1. at \in Steps /\ at[1] \in DOMAIN Repos /\ Len(Repos) \in Nat
        BY <1>0, <1>1, <1>7, ReposAssumption, LenProperties DEF WriteContent, TypeOK
      <3>2. pc' \in Running => After(at)[1] = at[1] \/ After(at)[1] <= Len(Repos)
        <4>1. at[1] \in Nat /\ After(at)[1] \in Nat
          BY <3>1, ReposAssumption DEF After, Steps
        <4>2. QED
          BY <1>7, <3>1, <4>1 DEF WriteContent
      <3>3. QED
        BY <1>7, <3>1, <3>2, StepsLemma DEF WriteContent
    <2>6. QED
      BY <1>0, <1>7, <2>3, <2>4, <2>5
         DEF WriteContent, local, IInv, TypeOK, TitleRead
  <1>8. CASE Exit
    BY <1>0, <1>8 DEF Exit, local, IInv, TypeOK, TitleRead
  <1>9. CASE CutShort
    <2>1. dst' \in [Targets -> Seq(Blocks) \union {Missing}]
      BY <1>0, <1>9, CutShortKeeps
    <2>2. QED
      BY <1>0, <1>9, <2>1 DEF CutShort, local, IInv, TypeOK, TitleRead
  <1>10. CASE Publish
    <2>1. upstream' \in [Sources -> Documents \union {Missing}]
      BY <1>0, <1>10 DEF Publish, TypeOK
    <2>2. QED
      BY <1>0, <1>10, <2>1, MaxEventsAssumption
         DEF Publish, Occurs, local, IInv, TypeOK, TitleRead
  <1>11. CASE EditTitle
    <2>1. dst' \in [Targets -> Seq(Blocks) \union {Missing}]
      <3>1. PICK d \in Targets, t \in Titles :
              /\ dst[d] # Missing
              /\ dst' = [dst EXCEPT ![d] = <<t>> \o SubSeq(@, Len(Title(@)) + 1, Len(@))]
        BY <1>11 DEF EditTitle
      <3>2. dst[d] \in Seq(Blocks) /\ <<t>> \in Seq(Blocks)
        BY <1>0, <3>1 DEF TypeOK, Blocks
      <3> DEFINE rest == SubSeq(dst[d], Len(Title(dst[d])) + 1, Len(dst[d]))
      <3>3. rest \in Seq(Blocks)
        <4>1. Len(Title(dst[d])) \in Nat /\ Len(dst[d]) \in Nat
          BY <3>2, TitleType, LenProperties
        <4>2. \A i \in (Len(Title(dst[d])) + 1)..Len(dst[d]) : dst[d][i] \in Blocks
          BY <3>2, <4>1, ElementOfSeq
        <4>3. QED
          BY <4>1, <4>2, SubSeqProperties
      <3> HIDE DEF rest
      <3>4. <<t>> \o rest \in Seq(Blocks)
        BY <3>2, <3>3, ConcatProperties
      <3>5. dst' = [dst EXCEPT ![d] = <<t>> \o rest]
        BY <3>1 DEF rest
      <3>6. QED
        BY <1>0, <3>4, <3>5 DEF TypeOK
    <2>2. QED
      BY <1>0, <1>11, <2>1, MaxEventsAssumption
         DEF EditTitle, Occurs, local, IInv, TypeOK, TitleRead
  <1>12. CASE UNCHANGED vars
    BY <1>0, <1>12 DEF vars, IInv, TypeOK, TitleRead
  <1>13. QED
    BY <1>2, <1>3, <1>4, <1>5, <1>6, <1>7, <1>8, <1>9, <1>10, <1>11, <1>12
       DEF Next

\* For every config file and every set of documents: no sequence of runs,
\* failures and edits leaves the types.
THEOREM TypeCorrect == Spec => []TypeOK
  <1>1. IInv => TypeOK
    BY DEF IInv
  <1>2. QED
    BY InitIInv, NextIInv, <1>1, PTL DEF Spec

\* No run of update-imported-docs.go takes a page's title block away or
\* changes it, wherever it stops.
THEOREM TitleIsKept == Spec => TitleKept
  <1>1. ASSUME IInv, [Next]_vars
        PROVE  [\A d \in Targets :
                  pc \in Running /\ Title(dst[d]) # <<>>
                    => Title(dst'[d]) = Title(dst[d])]_vars
    <2> SUFFICES ASSUME Next, pc \in Running, NEW d \in Targets, Title(dst[d]) # <<>>
                 PROVE  Title(dst'[d]) = Title(dst[d])
      BY <1>1
    <2>0. TypeOK /\ TitleRead
      BY <1>1 DEF IInv
    <2>1. CASE WriteTitle
      <3>1. title \in Seq(Blocks) /\ pc = "title" /\ Write(0, title)
        BY <2>0, <2>1, StepsLemma, TitleType DEF WriteTitle, TypeOK, TitleRead, Running
      <3>2. QED
        BY <2>0, <3>1, WriteKeeps
    <2>2. CASE WriteContent
      <3>1. content \in Seq(Blocks) /\ at[1] \in DOMAIN Repos
        BY <2>0, DocumentsAssumption, EmptySeq, StepsLemma DEF TypeOK
      <3>2. Processed(at[1], content) \in Seq(Blocks)
        BY <3>1, ProcessedType
      <3>3. QED
        BY <2>0, <2>2, <3>2, WriteKeeps DEF WriteContent
    <2>3. CASE CutShort
      BY <2>0, <2>3, CutShortKeeps
    <2>4. CASE EditTitle \/ Start
      BY <2>4 DEF EditTitle, Start, Running, Ended
    <2>5. CASE Clone \/ Generate \/ Read \/ Exit \/ Publish
      BY <2>5 DEF Clone, Generate, Read, Exit, Publish
    <2>6. QED
      BY <2>1, <2>2, <2>3, <2>4, <2>5 DEF Next
  <1>2. QED
    BY InitIInv, NextIInv, <1>1, PTL DEF Spec, TitleKept

-------------------------------------------------------------------------------
(* What a run leaves in the targets that it has passed.                    *)

\* A repository is cloned before any of its files is written.
AtFirst == pc \in {"clone", "generate"} => at[2] = 1

PInv == IInv /\ AtFirst /\ PassedAreImported

\* The order in which a run comes to the entries of the config file.
LEMMA OrderLemma ==
    ASSUME NEW s \in Steps, NEW t \in Steps
    PROVE  /\ s[1] \in Nat /\ s[2] \in Nat \ {0} /\ s = <<s[1], s[2]>>
           /\ ~ (Before(s, t) /\ Before(t, s)) /\ ~Before(s, s)
           /\ Before(s, After(t)) <=> Before(s, t) \/ s = t
           /\ ~Before(s, <<1, 1>>)
           /\ After(t)[1] # t[1] => After(t)[2] = 1
  <1> DEFINE Entry == [src: STRING, dst: STRING]
             Repo == [generate: BOOLEAN, absolute: BOOLEAN,
                      files: Seq(Entry) \ {<<>>}]
  <1>1. Repos \in Seq(Repo)
    BY ReposAssumption
  <1>2. Len(Repos) \in Nat /\ DOMAIN Repos = 1..Len(Repos)
    BY <1>1, LenProperties
  <1>3. \A k \in DOMAIN Repos : Repos[k].files \in Seq(Entry)
    <2>1. \A k \in DOMAIN Repos : Repos[k] \in Repo
      BY <1>1, <1>2, ElementOfSeq
    <2>2. QED
      BY <2>1
  <1> HIDE DEF Entry, Repo
  <1>4. \A k \in DOMAIN Repos : /\ Len(Repos[k].files) \in Nat
                                /\ DOMAIN Repos[k].files = 1..Len(Repos[k].files)
    BY <1>3, LenProperties
  <1>5. \A u \in Steps : /\ u[1] \in DOMAIN Repos /\ u = <<u[1], u[2]>>
                         /\ u[2] \in DOMAIN Repos[u[1]].files
    BY DEF Steps
  <1>6. \A u \in Steps : /\ u[1] \in Nat /\ u[1] >= 1 /\ u[2] \in Nat /\ u[2] >= 1
                         /\ u[2] <= Len(Repos[u[1]].files)
                         /\ Len(Repos[u[1]].files) \in Nat
    BY <1>2, <1>4, <1>5
  <1>7. /\ s[1] \in Nat /\ s[1] >= 1 /\ s[2] \in Nat /\ s[2] >= 1
        /\ t[1] \in Nat /\ t[2] \in Nat
        /\ s = t <=> s[1] = t[1] /\ s[2] = t[2]
    BY <1>5, <1>6
  <1>8. Before(s, After(t)) <=> Before(s, t) \/ s = t
    <2>1. CASE t[2] < Len(Repos[t[1]].files)
      <3>1. After(t)[1] = t[1] /\ After(t)[2] = t[2] + 1
        BY <2>1 DEF After
      <3>2. QED
        BY <1>7, <3>1 DEF Before
    <2>2. CASE ~ (t[2] < Len(Repos[t[1]].files))
      <3>1. After(t)[1] = t[1] + 1 /\ After(t)[2] = 1
        BY <2>2 DEF After
      <3>2. t[2] = Len(Repos[t[1]].files)
        BY <1>6, <2>2
      <3>3. s[1] = t[1] => s[2] <= t[2]
        BY <1>6, <3>2
      <3>4. QED
        BY <1>7, <3>1, <3>3 DEF Before
    <2>3. QED
      BY <2>1, <2>2
  <1>9. After(t)[1] # t[1] => After(t)[2] = 1
    BY DEF After
  <1>10. ~ (Before(s, t) /\ Before(t, s)) /\ ~Before(s, s) /\ ~Before(s, <<1, 1>>)
    BY <1>7 DEF Before
  <1>11. QED
    BY <1>5, <1>7, <1>8, <1>9, <1>10

\* What is written behind the title begins the page with it.
LEMMA WrittenBegins ==
    ASSUME NEW old \in Seq(Blocks), NEW body \in Seq(Blocks)
    PROVE  \E p \in {body} \union {<<t>> \o body : t \in Titles} :
              IsPrefix(p, Overlay(old, Len(Title(old)), body))
  <1> DEFINE n == Len(Title(old))
             front == SubSeq(old, 1, n)
             rest == SubSeq(old, n + Len(body) + 1, Len(old))
  <1>1. \/ Title(old) = <<>> /\ n = 0
        \/ /\ Title(old) = <<old[1]>> /\ n = 1 /\ old # <<>> /\ Len(old) >= 1
           /\ old[1] \in Titles
    BY EmptySeq, LenProperties, DocumentsAssumption DEF Title
  <1>2. n \in Nat /\ Len(old) \in Nat /\ Len(body) \in Nat
    BY <1>1, LenProperties
  <1> HIDE DEF n
  <1>3. \A i \in 1..n : old[i] \in Blocks
    BY <1>1, <1>2, ElementOfSeq
  <1>4. front \in Seq(Blocks) /\ Len(front) = n /\ \A i \in 1..n : front[i] = old[i]
    BY <1>2, <1>3, SubSeqProperties
  <1>5. front \o body \in {body} \union {<<t>> \o body : t \in Titles}
    <2>1. CASE n = 0
      <3>1. front = <<>>
        BY <1>4, <2>1, EmptySeq
      <3>2. QED
        BY <3>1, ConcatEmptySeq
    <2>2. CASE n = 1 /\ old[1] \in Titles
      <3>1. front = <<old[1]>>
        <4>1. front[1] = old[1] /\ Len(front) = 1
          BY <1>4, <2>2
        <4> HIDE DEF front
        <4>2. front = [i \in 1..1 |-> front[i]]
          BY <1>4, <4>1
        <4>3. QED
          BY <4>1, <4>2
      <3>2. QED
        BY <2>2, <3>1
    <2>3. QED
      BY <1>1, <2>1, <2>2
  <1>6. rest \in Seq(Blocks)
    <2>1. \A i \in (n + Len(body) + 1)..Len(old) : old[i] \in Blocks
      BY <1>2, ElementOfSeq
    <2>2. QED
      BY <1>2, <2>1, SubSeqProperties
  <1> DEFINE start == front \o body
  <1>7. start \in Seq(Blocks)
    BY <1>4, ConcatProperties
  <1>8. Overlay(old, Len(Title(old)), body) = start \o rest
    BY DEF Overlay, n
  <1> HIDE DEF front, rest, start
  <1>9. IsPrefix(start, start \o rest)
    <2> DEFINE all == start \o rest
    <2>1. /\ Len(all) = Len(start) + Len(rest) /\ all \in Seq(Blocks)
          /\ \A i \in 1..(Len(start) + Len(rest)) :
                all[i] = IF i <= Len(start) THEN start[i] ELSE rest[i - Len(start)]
      BY <1>6, <1>7, ConcatProperties
    <2>2. Len(start) \in Nat /\ Len(rest) \in Nat
      BY <1>6, <1>7, LenProperties
    <2> HIDE DEF all
    <2>3. \A i \in 1..Len(start) : all[i] = start[i]
      BY <2>1, <2>2
    <2>4. SubSeq(start, 1, Len(start)) = start
      BY <1>7, SubSeqFull
    <2>5. SubSeq(all, 1, Len(start)) = start
      <3>1. \A i \in 1..Len(start) : all[i] \in Blocks
        BY <1>7, <2>2, <2>3, ElementOfSeq
      <3>2. /\ SubSeq(all, 1, Len(start)) \in Seq(Blocks)
            /\ Len(SubSeq(all, 1, Len(start))) = Len(start)
            /\ \A i \in 1..Len(start) : SubSeq(all, 1, Len(start))[i] = all[i]
        BY <2>2, <3>1, SubSeqProperties
      <3>3. \A i \in 1..Len(start) : SubSeq(all, 1, Len(start))[i] = start[i]
        BY <2>3, <3>2
      <3>4. QED
        BY <1>7, <3>2, <3>3, SeqEqual
    <2>6. Len(start) <= Len(all)
      BY <2>1, <2>2
    <2>7. QED
      BY <2>4, <2>5, <2>6 DEF IsPrefix, all
  <1>10. QED
    BY <1>5, <1>8, <1>9 DEF start

\* A step that leaves alone what has been passed.
LEMMA StaysLemma ==
    ASSUME PassedAreImported, pc # "idle", at' = at,
           \A s \in Steps : Before(s, at) => clone'[File(s).src] = clone[File(s).src],
           \A d \in Targets : (at \in Steps => d # File(at).dst) => dst'[d] = dst[d]
    PROVE  PassedAreImported'
  <1> SUFFICES ASSUME NEW d \in Targets, NEW s \in Steps, IsLast(s, d)',
                      at' \in Steps => d # File(at').dst
               PROVE  (Imported(dst[d], s) # {})'
    BY DEF PassedAreImported
  <1>1. Passed(d)' = Passed(d)
    BY DEF Passed
  <1>2. IsLast(s, d) /\ Before(s, at)
    BY <1>1 DEF IsLast, Passed
  <1>3. Imported(dst[d], s) # {}
    BY <1>2 DEF PassedAreImported
  <1>4. dst'[d] = dst[d] /\ clone'[File(s).src] = clone[File(s).src]
    BY <1>2
  <1>5. QED
    BY <1>3, <1>4 DEF Imported

\* Cloning and generating change no source of an earlier repository.
LEMMA EarlierSources ==
    ASSUME at \in Steps, at[2] = 1, NEW s \in Steps, Before(s, at)
    PROVE  File(s).src \in Sources /\ File(s).src \notin OfRepo(at[1])
  <1>1. s[1] # at[1]
    BY OrderLemma DEF Before
  <1>2. SUFFICES ASSUME File(s).src \in OfRepo(at[1]) PROVE FALSE
    BY StepsLemma
  <1>3. PICK f \in DOMAIN Repos[at[1]].files : File(s).src = Repos[at[1]].files[f].src
    BY <1>2 DEF OfRepo, ToSet
  <1>4. at[1] \in DOMAIN Repos
    BY StepsLemma
  <1>5. <<at[1], f>> \in Steps /\ File(<<at[1], f>>).src = File(s).src
    BY <1>3, <1>4 DEF Steps, File
  <1>6. QED
    BY <1>1, <1>5, SourcesAssumption

\* The file that is finished is the last of those passed for its target.
LEMMA WriteContentPasses ==
    ASSUME PInv, WriteContent PROVE PassedAreImported'
  <1>1. /\ at \in Steps /\ pc = "content" /\ content = clone[File(at).src]
        /\ title = Title(dst[File(at).dst]) /\ TypeOK
        /\ at[1] \in DOMAIN Repos /\ File(at).dst \in Targets
    BY StepsLemma DEF PInv, IInv, TypeOK, TitleRead, WriteContent, Running
  <1>2. at' = After(at) /\ clone' = clone
        /\ Write(Len(title), Processed(at[1], content))
    BY DEF WriteContent
  <1> DEFINE d0 == File(at).dst
             body == Processed(at[1], content)
             new == Overlay(Opened(d0), Len(title), body)
  <1>3. content \in Seq(Blocks) /\ body \in Seq(Blocks)
    BY <1>1, ProcessedType, DocumentsAssumption, EmptySeq DEF TypeOK
  <1>4. Opened(d0) \in Seq(Blocks) /\ Title(Opened(d0)) = title
    BY <1>1, EmptySeq, DocumentsAssumption DEF Opened, Title, TypeOK
  <1>5. dst'[d0] = new /\ \A d \in Targets : d # d0 => dst'[d] = dst[d]
    BY <1>1, <1>2 DEF Write, TypeOK
  <1>6. \E p \in {body} \union {<<t>> \o body : t \in Titles} : IsPrefix(p, new)
    BY <1>3, <1>4, WrittenBegins
  <1> HIDE DEF d0, body, new
  <1> SUFFICES ASSUME NEW d \in Targets, NEW s \in Steps, IsLast(s, d)',
                      at' \in Steps => d # File(at').dst
               PROVE  (Imported(dst[d], s) # {})'
    BY DEF PassedAreImported
  <1>7. \A t \in Steps : Before(t, at') <=> Before(t, at) \/ t = at
    BY <1>1, <1>2, OrderLemma
  <1>8. CASE d = d0
    <2>1. at \in Passed(d)'
      BY <1>1, <1>7, <1>8 DEF Passed, d0
    <2>2. s = at \/ Before(at, s)
      BY <2>1 DEF IsLast
    <2>3. s = at \/ Before(s, at)
      BY <1>7 DEF IsLast, Passed
    <2>4. s = at
      BY <1>1, <2>2, <2>3, OrderLemma
    <2>5. Processed(s[1], clone'[File(s).src]) = body
      BY <1>1, <1>2, <2>4 DEF body
    <2>6. QED
      BY <1>5, <1>6, <1>8, <2>5 DEF Imported
  <1>9. CASE d # d0
    <2>1. Passed(d)' = Passed(d)
      BY <1>7, <1>9 DEF Passed, d0
    <2>2. IsLast(s, d)
      BY <2>1 DEF IsLast
    <2>3. Imported(dst[d], s) # {}
      BY <1>1, <1>9, <2>2 DEF PInv, PassedAreImported, d0
    <2>4. QED
      BY <1>2, <1>5, <1>9, <2>3 DEF Imported
  <1>10. QED
    BY <1>8, <1>9

LEMMA PassedNext == PInv /\ [Next]_vars => PassedAreImported'
  <1> SUFFICES ASSUME PInv, [Next]_vars PROVE PassedAreImported'
    OBVIOUS
  <1>0. TypeOK /\ AtFirst /\ PassedAreImported
    BY DEF PInv, IInv
  <1>1. CASE Start
    <2>1. at' = <<1, 1>>
      BY <1>1 DEF Start
    <2>2. \A s \in Steps : ~Before(s, at')
      BY <2>1, OrderLemma
    <2>3. QED
      BY <2>2 DEF PassedAreImported, IsLast, Passed
  <1>2. CASE Clone \/ Generate
    <2>1. at \in Steps /\ at[2] = 1 /\ at' = at /\ dst' = dst /\ pc # "idle"
      BY <1>0, <1>2 DEF Clone, Generate, TypeOK, AtFirst, Running
    <2>2. ASSUME NEW s \in Steps, Before(s, at)
          PROVE  clone'[File(s).src] = clone[File(s).src]
      <3>1. File(s).src \in Sources /\ File(s).src \notin OfRepo(at[1])
        BY <2>1, <2>2, EarlierSources
      <3>2. CASE Clone
        BY <3>1, <3>2 DEF Clone
      <3>3. CASE Generate
        BY <1>0, <3>1, <3>3 DEF Generate, TypeOK
      <3>4. QED
        BY <1>2, <3>2, <3>3
    <2>3. QED
      BY <1>0, <2>1, <2>2, StaysLemma
  <1>3. CASE Read \/ Exit
    <2>1. pc # "idle" /\ at' = at /\ clone' = clone /\ dst' = dst
      BY <1>3 DEF Read, Exit, Running
    <2>2. QED
      BY <1>0, <2>1, StaysLemma
  <1>4. CASE WriteTitle \/ CutShort
    <2>1. pc # "idle" /\ at' = at /\ clone' = clone /\ at \in Steps
      BY <1>0, <1>4 DEF WriteTitle, CutShort, TypeOK, Running
    <2>2. PICK offset, blocks : Write(offset, blocks)
      BY <1>4 DEF WriteTitle, CutShort
    <2>3. \A d \in Targets : d # File(at).dst => dst'[d] = dst[d]
      BY <1>0, <2>2 DEF Write, TypeOK
    <2>4. QED
      BY <1>0, <2>1, <2>3, StaysLemma
  <1>5. CASE WriteContent
    BY <1>5, WriteContentPasses
  <1>6. CASE Publish \/ UNCHANGED vars
    <2>1. pc' = pc /\ at' = at /\ clone' = clone /\ dst' = dst
      BY <1>6 DEF Publish, local, vars
    <2>2. CASE pc = "idle"
      BY <2>1, <2>2 DEF PassedAreImported
    <2>3. CASE pc # "idle"
      BY <1>0, <2>1, <2>3, StaysLemma
    <2>4. QED
      BY <2>2, <2>3
  <1>7. CASE EditTitle
    BY <1>7 DEF EditTitle, PassedAreImported
  <1>8. QED
    BY <1>1, <1>2, <1>3, <1>4, <1>5, <1>6, <1>7 DEF Next

LEMMA AtFirstNext == PInv /\ [Next]_vars => AtFirst'
  <1> SUFFICES ASSUME PInv, [Next]_vars PROVE AtFirst'
    OBVIOUS
  <1>0. TypeOK /\ AtFirst
    BY DEF PInv, IInv
  <1>1. CASE WriteContent
    <2>1. at \in Steps /\ at' = After(at)
      BY <1>0, <1>1 DEF WriteContent, TypeOK, Running
    <2>1a. at[1] \in 1..Len(Repos) /\ Len(Repos) \in Nat
      BY <2>1, StepsLemma, ReposAssumption, LenProperties
    <2>2. After(at)[1] = at[1] => pc' = "read"
      BY <1>1, <2>1a DEF WriteContent
    <2>3. After(at)[1] # at[1] => After(at)[2] = 1
      BY <2>1, OrderLemma
    <2>4. QED
      BY <2>1, <2>2, <2>3 DEF AtFirst
  <1>2. CASE Start \/ Clone
    BY <1>0, <1>2 DEF Start, Clone, AtFirst
  <1>3. CASE Generate \/ Read \/ WriteTitle \/ Exit \/ CutShort
    BY <1>3 DEF Generate, Read, WriteTitle, Exit, CutShort, AtFirst
  <1>4. CASE EditTitle \/ Publish \/ UNCHANGED vars
    BY <1>0, <1>4 DEF EditTitle, Publish, local, vars, AtFirst
  <1>5. QED
    BY <1>1, <1>2, <1>3, <1>4 DEF Next

\* Every target that a run of update-imported-docs.go has passed begins with
\* the processed source of the last entry that names it, behind its title,
\* wherever a later file or repository makes the run fail.
THEOREM PassedIsImported == Spec => []PassedAreImported
  <1>1. Init => PInv
    <2>1. Init => AtFirst /\ PassedAreImported
      BY DEF Init, AtFirst, PassedAreImported
    <2>2. QED
      BY <2>1, InitIInv DEF PInv
  <1>2. PInv /\ [Next]_vars => PInv'
    BY NextIInv, PassedNext, AtFirstNext DEF PInv
  <1>3. PInv => PassedAreImported
    BY DEF PInv
  <1>4. QED
    BY <1>1, <1>2, <1>3, PTL DEF Spec

-------------------------------------------------------------------------------
(* update-user-guide-links.py.                                             *)

\* Two to the power of a number, by the subsets of a set with so many elements.
LEMMA PowerLemma ==
    /\ 2^0 = 1
    /\ \A c \in Nat : 2^c \in Nat /\ 2^c >= 1 /\ 2^(c + 1) = 2 * 2^c
  <1>1. \A c \in Nat : /\ IsFiniteSet(SUBSET (1..c))
                       /\ Cardinality(SUBSET (1..c)) = 2^c
                       /\ 2^c \in Nat
    <2> TAKE c \in Nat
    <2>1. IsFiniteSet(1..c) /\ Cardinality(1..c) = c
      <3>1. 1 \in Int /\ c \in Int
        OBVIOUS
      <3>2. Cardinality(1..c) = (IF 1 > c THEN 0 ELSE c - 1 + 1) /\ IsFiniteSet(1..c)
        BY <3>1, FS_Interval
      <3>3. (IF 1 > c THEN 0 ELSE c - 1 + 1) = c
        OBVIOUS
      <3>4. QED
        BY <3>2, <3>3
    <2>2. IsFiniteSet(SUBSET (1..c)) /\ Cardinality(SUBSET (1..c)) = 2^Cardinality(1..c)
      BY <2>1, FS_SUBSET
    <2>3. QED
      BY <2>1, <2>2, FS_CardinalityType
  <1>2. 2^0 = 1
    <2>1. 0 \in Nat /\ 1..0 = {}
      OBVIOUS
    <2>2. SUBSET (1..0) = {{}}
      BY <2>1
    <2>3. Cardinality({{}}) = 1
      BY FS_Singleton
    <2>4. QED
      BY <1>1, <2>1, <2>2, <2>3
  <1>3. ASSUME NEW c \in Nat PROVE 2^c >= 1
    <2>1. {} \in SUBSET (1..c)
      OBVIOUS
    <2>2. Cardinality(SUBSET (1..c)) # 0
      BY <1>1, <2>1, FS_EmptySet
    <2>3. QED
      BY <1>1, <2>2
  <1>4. ASSUME NEW c \in Nat PROVE 2^(c + 1) = 2 * 2^c
    <2> DEFINE low == SUBSET (1..c)
               high == {X \union {c + 1} : X \in low}
               with == [X \in low |-> X \union {c + 1}]
    <2>1. 1..(c + 1) = (1..c) \union {c + 1} /\ c + 1 \notin 1..c /\ c + 1 \in Nat
      OBVIOUS
    <2>2. SUBSET (1..(c + 1)) = low \union high
      <3>1. ASSUME NEW Y \in SUBSET (1..(c + 1)) PROVE Y \in low \union high
        <4>1. CASE c + 1 \in Y
          <5>1. Y \ {c + 1} \in low /\ Y = (Y \ {c + 1}) \union {c + 1}
            BY <2>1, <4>1
          <5>2. QED
            BY <5>1
        <4>2. CASE c + 1 \notin Y
          BY <2>1, <4>2
        <4>3. QED
          BY <4>1, <4>2
      <3>2. ASSUME NEW X \in low
            PROVE  X \in SUBSET (1..(c + 1)) /\ X \union {c + 1} \in SUBSET (1..(c + 1))
        BY <2>1
      <3>3. low \subseteq SUBSET (1..(c + 1)) /\ high \subseteq SUBSET (1..(c + 1))
        BY <3>2
      <3>4. SUBSET (1..(c + 1)) \subseteq low \union high
        BY <3>1
      <3> HIDE DEF low, high
      <3>5. QED
        BY <3>3, <3>4
    <2>3. low \intersect high = {}
      BY <2>1
    <2>4. ExistsBijection(low, high)
      <3>1. with \in [low -> high]
        OBVIOUS
      <3>2. \A X, Y \in low : with[X] = with[Y] => X = Y
        <4> SUFFICES ASSUME NEW X \in low, NEW Y \in low,
                            X \union {c + 1} = Y \union {c + 1}
                     PROVE  X = Y
          OBVIOUS
        <4>1. c + 1 \notin X /\ c + 1 \notin Y
          BY <2>1
        <4>2. QED
          BY <4>1
      <3>3. \A Z \in high : \E X \in low : with[X] = Z
        OBVIOUS
      <3> HIDE DEF low, high, with
      <3>4. with \in Bijection(low, high)
        BY <3>1, <3>2, <3>3, Fun_IsBij, Fun_IsSurj
      <3>5. QED
        BY <3>4 DEF ExistsBijection
    <2>5. IsFiniteSet(low) /\ Cardinality(low) = 2^c /\ 2^c \in Nat
      BY <1>1
    <2>5a. Cardinality(SUBSET (1..(c + 1))) = 2^(c + 1)
      BY <1>1, <2>1
    <2> HIDE DEF low, high
    <2>6. IsFiniteSet(high) /\ Cardinality(high) = 2^c
      BY <2>4, <2>5, FS_Bijection
    <2>7. Cardinality(low \union high) = 2^c + 2^c - Cardinality({})
      BY <2>3, <2>5, <2>6, FS_Union
    <2>8. Cardinality({}) = 0
      BY FS_EmptySet
    <2>9. 2^(c + 1) = 2^c + 2^c - 0
      BY <2>2, <2>5a, <2>7, <2>8, Zenon
    <2>10. \A n, m \in Nat : n = m + m - 0 => n = 2 * m
      OBVIOUS
    <2>11. 2^(c + 1) \in Nat /\ 2^c \in Nat
      BY <1>1, <2>1
    <2>12. QED
      BY <2>9, <2>10, <2>11, Zenon
  <1>5. QED
    BY <1>1, <1>2, <1>3, <1>4

-------------------------------------------------------------------------------
\* How many pages with one destination a page leads to.
Rank(p) == Cardinality(Ways(p) \intersect Single)

Acyclic == \A p \in Moved : ~Circular(p)

LEMMA SingleLemma ==
    ASSUME site \in Sites
    PROVE  /\ Moved \subseteq Places /\ IsFiniteSet(Moved)
           /\ Single \subseteq Places /\ IsFiniteSet(Single)
           /\ \A p \in Single : /\ p \in Moved /\ Len(site[p]) = 1
                                /\ site[p][1] \in Places
  <1>1. Moved \subseteq Places
    BY LinkAssumption DEF Moved
  <1>2. IsFiniteSet(Moved)
    BY <1>1, LinkAssumption, FS_Subset
  <1>3. Single \subseteq Moved
    BY DEF Single
  <1>4. IsFiniteSet(Single)
    BY <1>2, <1>3, FS_Subset
  <1>5. QED
    BY <1>1, <1>2, <1>3, <1>4 DEF Single

LEMMA WaysLemma ==
    ASSUME site \in Sites
    PROVE  /\ \A p \in Places : p \in Ways(p) /\ Ways(p) \subseteq Places
           /\ \A p \in Places : \A q \in Ways(p) : Ways(q) \subseteq Ways(p)
           /\ \A p \in Places : \A q \in Ways(p) \intersect Single : site[q][1] \in Ways(p)
           /\ \A p \in Places \ Single : Ways(p) = {p}
  <1>1. \A p \in Places : p \in Ways(p) /\ Ways(p) \subseteq Places
    BY DEF Ways
  <1>2. ASSUME NEW p \in Places, NEW q \in Ways(p) \intersect Single
        PROVE  site[q][1] \in Ways(p)
    <2>1. site[q][1] \in Places
      BY SingleLemma
    <2>2. ASSUME NEW S \in SUBSET Places, p \in S, ClosedUnderMoves(S)
          PROVE  site[q][1] \in S
      <3>1. q \in S
        BY <2>2 DEF Ways
      <3>2. QED
        BY <2>2, <3>1 DEF ClosedUnderMoves
    <2>3. QED
      BY <2>1, <2>2 DEF Ways
  <1>3. ASSUME NEW p \in Places, NEW q \in Ways(p)
        PROVE  Ways(q) \subseteq Ways(p)
    <2>1. Ways(p) \in SUBSET Places
      BY <1>1
    <2>2. ClosedUnderMoves(Ways(p))
      BY <1>2 DEF ClosedUnderMoves
    <2>3. QED
      BY <2>1, <2>2 DEF Ways
  <1>4. ASSUME NEW p \in Places \ Single PROVE Ways(p) = {p}
    <2>1. {p} \in SUBSET Places /\ ClosedUnderMoves({p})
      BY DEF ClosedUnderMoves
    <2>2. QED
      BY <1>1, <2>1 DEF Ways
  <1>5. QED
    BY <1>1, <1>2, <1>3, <1>4

\* Without a circle, a page leads to fewer such pages than the page that it
\* replaced, and to none only if it is none itself.
LEMMA RankLemma ==
    ASSUME site \in Sites
    PROVE  /\ \A p \in Places : Rank(p) \in Nat /\ Rank(p) <= Cardinality(Single)
           /\ Cardinality(Single) \in Nat
           /\ \A p \in Places : Rank(p) = 0 <=> p \notin Single
           /\ Acyclic => \A p \in Single : Rank(site[p][1]) + 1 <= Rank(p)
  <1>0. IsFiniteSet(Single) /\ Cardinality(Single) \in Nat
    BY SingleLemma, FS_CardinalityType
  <1>1. ASSUME NEW p \in Places
        PROVE  Rank(p) \in Nat /\ Rank(p) <= Cardinality(Single)
               /\ IsFiniteSet(Ways(p) \intersect Single)
    <2>1. (Ways(p) \intersect Single) \in SUBSET Single
      OBVIOUS
    <2>2. QED
      BY <1>0, <2>1, FS_Subset, FS_CardinalityType DEF Rank
  <1>2. ASSUME NEW p \in Places
        PROVE  Rank(p) = 0 <=> p \notin Single
    <2>1. Rank(p) = 0 <=> Ways(p) \intersect Single = {}
      BY <1>1, FS_EmptySet DEF Rank
    <2>2. p \in Single => Ways(p) \intersect Single # {}
      BY WaysLemma
    <2>3. p \notin Single => Ways(p) \intersect Single = {}
      BY WaysLemma
    <2>4. QED
      BY <2>1, <2>2, <2>3
  <1>3. ASSUME Acyclic, NEW p \in Single
        PROVE  Rank(site[p][1]) + 1 <= Rank(p)
    <2> DEFINE q == site[p][1]
    <2>1. q \in Places /\ p \in Places /\ p \in Moved
      BY SingleLemma
    <2>2. q \in Ways(p)
      BY <2>1, WaysLemma
    <2>3. Ways(q) \subseteq Ways(p)
      BY <2>1, <2>2, WaysLemma
    <2>4. p \notin Ways(q)
      BY <1>3, <2>1 DEF Acyclic, Circular
    <2>5. p \in Ways(p)
      BY <2>1, WaysLemma
    <2>6. Ways(q) \intersect Single \in SUBSET (Ways(p) \intersect Single)
      BY <2>3
    <2>7. Ways(q) \intersect Single # Ways(p) \intersect Single
      BY <2>4, <2>5
    <2>8. /\ Cardinality(Ways(q) \intersect Single) <= Cardinality(Ways(p) \intersect Single)
          /\ Cardinality(Ways(q) \intersect Single) # Cardinality(Ways(p) \intersect Single)
      BY <1>1, <2>1, <2>6, <2>7, FS_Subset
    <2>9. Rank(q) \in Nat /\ Rank(p) \in Nat /\ Rank(q) <= Rank(p) /\ Rank(q) # Rank(p)
      BY <1>1, <2>1, <2>8 DEF Rank
    <2> HIDE DEF q
    <2>10. Rank(q) + 1 <= Rank(p)
      BY <2>9
    <2>11. QED
      BY <2>10 DEF q
  <1>4. QED
    BY <1>0, <1>1, <1>2, <1>3

-------------------------------------------------------------------------------
(* The rewriting.                                                          *)

LinesBelow == Places \union {NoLink, NoNotice}

\* What sed makes of a line is a link where there was one.
LinkTyped ==
    /\ site \in Sites
    /\ index \in [Places -> Places]
    /\ notice \in [Moved -> Seq(LinesBelow)]
    /\ \A p \in Moved : Len(notice[p]) = Len(site[p])
    /\ \A p \in Moved : \A k \in 1..Len(site[p]) :
          /\ site[p][k] \in Places => notice[p][k] \in Places
          /\ site[p][k] \notin Places => notice[p][k] = site[p][k]
    /\ pairs \in Seq(Single \X Places)
    /\ complete \in Nat

\* A link leads on from where it led, and so does a rewrite.
Follows ==
    /\ \A p \in Places : index[p] \in Ways(p)
    /\ \A p \in Moved : \A k \in 1..Len(site[p]) :
          site[p][k] \in Places => notice[p][k] \in Ways(site[p][k])
    /\ \A k \in 1..Len(pairs) : pairs[k][2] \in Ways(pairs[k][1])

\* q, to which p leads, has come to the end, or by n pages nearer to it.
Nearer(q, p, n) == Rank(q) = 0 \/ Rank(q) + n <= Rank(p)

\* The run will still rewrite a link to this page in this file.
Pending(link, file) ==
    \E k \in 1..Len(pairs) : pairs[k][1] = link /\ (k = 1 => file \notin done)

\* Every complete run doubles how far the links and the rewrites lead; what a
\* run has not doubled it will still rewrite.
Progress ==
    /\ \A p \in Places : Nearer(index[p], p, 2^complete - 1)
    /\ \A p \in Single : Nearer(notice[p][1], p, 2^complete)
    /\ \A k \in 1..Len(pairs) : Nearer(pairs[k][2], pairs[k][1], 2^complete)
    /\ running => \A p \in Places :
          Pending(index[p], "index") \/ Nearer(index[p], p, 2 * 2^complete - 1)
    /\ running => \A p \in Single :
          Pending(notice[p][1], p) \/ Nearer(notice[p][1], p, 2 * 2^complete)

LinkInv == LinkTyped /\ Follows /\ (Acyclic => Progress)

LEMMA SameSite ==
    ASSUME site' = site
    PROVE  /\ Moved' = Moved /\ LinkFiles' = LinkFiles /\ Single' = Single
           /\ \A p : Ways(p)' = Ways(p) /\ Rank(p)' = Rank(p)
           /\ Acyclic' = Acyclic
  <1>1. Moved' = Moved
    BY DEF Moved
  <1>2. Single' = Single
    BY <1>1 DEF Single
  <1>3. \A p : Ways(p)' = Ways(p)
    BY <1>2 DEF Ways, ClosedUnderMoves
  <1>4. \A p : Rank(p)' = Rank(p)
    BY <1>2, <1>3 DEF Rank
  <1>5. LinkFiles' = LinkFiles
    BY <1>1 DEF LinkFiles
  <1>6. Acyclic' = Acyclic
    BY <1>1, <1>2, <1>3 DEF Acyclic, Circular
  <1>7. QED
    BY <1>1, <1>2, <1>3, <1>4, <1>5, <1>6

\* The pages that are rewritten are those that had one destination.
LEMMA FoundLemma ==
    ASSUME LinkTyped, FindDocuments
    PROVE  /\ pairs' \in Seq(Single \X Places)
           /\ \A k \in 1..Len(pairs') : pairs'[k][2] = notice[pairs'[k][1]][1]
           /\ \A d \in Single : \E k \in 1..Len(pairs') : pairs'[k][1] = d
  <1> DEFINE Found == {p \in Moved : Len(DestinationsOf(p)) = 1}
  <1>1. /\ site \in Sites
        /\ \A p \in Moved : /\ notice[p] \in Seq(LinesBelow)
                            /\ Len(notice[p]) = Len(site[p])
                            /\ Len(notice[p]) \in Nat
                            /\ DOMAIN notice[p] = 1..Len(notice[p])
    BY LenProperties DEF LinkTyped
  <1>2. ASSUME NEW p \in Single
        PROVE  p \in Found /\ DestinationsOf(p) = notice[p] /\ notice[p][1] \in Places
               /\ Head(DestinationsOf(p)) = notice[p][1]
    <2>1. p \in Moved /\ Len(site[p]) = 1 /\ site[p][1] \in Places
      BY <1>1, SingleLemma
    <2>2. notice[p][1] \in Places /\ DOMAIN notice[p] = 1..1 /\ Len(notice[p]) = 1
      BY <1>1, <2>1 DEF LinkTyped
    <2>3. ~ \E k \in DOMAIN notice[p] : notice[p][k] = NoLink
      BY <2>2, LinkAssumption
    <2>4. DestinationsOf(p) = notice[p]
      BY <2>3 DEF DestinationsOf
    <2>5. Head(notice[p]) = notice[p][1]
      BY <1>1, <2>1
    <2>6. QED
      BY <2>1, <2>2, <2>4, <2>5
  <1>3. ASSUME NEW p \in Found PROVE p \in Single
    <2>1. p \in Moved /\ Len(DestinationsOf(p)) = 1
      OBVIOUS
    <2>2. ~ \E k \in DOMAIN notice[p] : notice[p][k] = NoLink
      BY <2>1, LenProperties DEF DestinationsOf
    <2>3. DestinationsOf(p) = notice[p]
      BY <2>2 DEF DestinationsOf
    <2>4. Len(notice[p]) = 1 /\ Len(site[p]) = 1 /\ 1 \in DOMAIN notice[p]
      BY <1>1, <2>1, <2>3
    <2>5. notice[p] = <<notice[p][1]>>
      BY <1>1, <2>1, <2>4
    <2>6. notice[p][1] # NoLink /\ notice[p][1] # NoNotice
      BY <2>1, <2>2, <2>4, <2>5 DEF FindDocuments
    <2>7. notice[p][1] \in LinesBelow
      BY <1>1, <2>1, <2>4
    <2>8. notice[p][1] \in Places
      BY <2>6, <2>7 DEF LinesBelow
    <2>9. site[p][1] \notin Places => site[p][1] = notice[p][1]
      BY <2>1, <2>4 DEF LinkTyped
    <2>10. QED
      BY <2>1, <2>4, <2>8, <2>9 DEF Single
  <1>4. Found = Single
    BY <1>2, <1>3
  <1>5. PICK docs \in SetToSeqs(Single) :
              pairs' = [k \in DOMAIN docs |-> <<docs[k], Head(DestinationsOf(docs[k]))>>]
    BY <1>4 DEF FindDocuments, Rewrites
  <1>6. IsFiniteSet(Single) /\ Cardinality(Single) \in Nat
    BY <1>1, SingleLemma, FS_CardinalityType
  <1> DEFINE n == Cardinality(Single)
  <1>7. docs \in [1..n -> Single] /\ \A i, j \in 1..n : i # j => docs[i] # docs[j]
    BY DEF SetToSeqs
  <1>8. docs \in Injection(1..n, Single)
    BY <1>7, Fun_IsInj
  <1>9. IsFiniteSet(1..n) /\ Cardinality(1..n) = n
    <2>1. 1 \in Int /\ n \in Int
      BY <1>6
    <2>2. IsFiniteSet(1..n) /\ Cardinality(1..n) = (IF 1 > n THEN 0 ELSE n - 1 + 1)
      BY <2>1, FS_Interval
    <2>3. QED
      BY <1>6, <2>2
  <1>10. docs \in Surjection(1..n, Single)
    BY <1>6, <1>8, <1>9, FS_Injection
  <1>11. \A d \in Single : \E k \in 1..n : docs[k] = d
    BY <1>10 DEF Surjection
  <1>12. \A k \in 1..n : docs[k] \in Single /\ Head(DestinationsOf(docs[k])) = notice[docs[k]][1]
         /\ notice[docs[k]][1] \in Places
    BY <1>2, <1>7
  <1>13. pairs' = [k \in 1..n |-> <<docs[k], notice[docs[k]][1]>>]
    BY <1>5, <1>7, <1>12
  <1> HIDE DEF n
  <1>14. pairs' \in [1..n -> Single \X Places]
    BY <1>12, <1>13
  <1>15. pairs' \in Seq(Single \X Places) /\ Len(pairs') = n
    BY <1>6, <1>14 DEF n
  <1>16. QED
    BY <1>11, <1>13, <1>15

LEMMA SedLemma ==
    ASSUME LinkTyped, NEW file \in LinkFiles, Sed(file)
    PROVE  /\ pairs[1] \in Single \X Places /\ Len(pairs) \in Nat /\ Len(pairs) >= 1
           /\ Head(pairs) = pairs[1]
           /\ pairs' \in Seq(Single \X Places)
           /\ \A k \in 1..Len(pairs') : \E j \in 1..Len(pairs) : pairs'[k] = pairs[j]
           /\ \A p \in Places :
                 index'[p] = IF file = "index" THEN Rewritten(index[p]) ELSE index[p]
           /\ \A p \in Moved : \A k \in 1..Len(site[p]) :
                 notice'[p][k] = IF file = p THEN Rewritten(notice[p][k]) ELSE notice[p][k]
           /\ \A link \in Places : Rewritten(link) \in Places
           /\ Rewritten(NoLink) = NoLink /\ Rewritten(NoNotice) = NoNotice
  <1>1. pairs \in Seq(Single \X Places) /\ pairs # <<>>
    BY DEF Sed, LinkTyped
  <1>2. pairs[1] \in Single \X Places /\ Len(pairs) \in Nat /\ Len(pairs) >= 1
        /\ Head(pairs) = pairs[1]
    BY <1>1
  <1>3. /\ Tail(pairs) \in Seq(Single \X Places) /\ Len(Tail(pairs)) = Len(pairs) - 1
        /\ \A k \in 1..(Len(pairs) - 1) : Tail(pairs)[k] = pairs[k + 1]
    BY <1>1
  <1>4. pairs' = pairs \/ pairs' = Tail(pairs)
    BY DEF Sed
  <1>5. /\ pairs' \in Seq(Single \X Places)
        /\ \A k \in 1..Len(pairs') : \E j \in 1..Len(pairs) : pairs'[k] = pairs[j]
    <2>1. CASE pairs' = pairs
      BY <1>1, <2>1
    <2>2. CASE pairs' = Tail(pairs)
      <3>1. \A k \in 1..(Len(pairs) - 1) : k + 1 \in 1..Len(pairs)
        BY <1>2
      <3>2. QED
        BY <1>3, <2>2, <3>1
    <2>3. QED
      BY <1>4, <2>1, <2>2
  <1>6. site \in Sites
    BY DEF LinkTyped
  <1>7. \A q \in Moved : q # "index"
    BY <1>6, SingleLemma, LinkAssumption
  <1>8. \A p \in Places :
                 index'[p] = IF file = "index" THEN Rewritten(index[p]) ELSE index[p]
    BY DEF Sed
  <1>9. ASSUME NEW p \in Moved, NEW k \in 1..Len(site[p])
        PROVE  notice'[p][k] = IF file = p THEN Rewritten(notice[p][k]) ELSE notice[p][k]
    <2>1. DOMAIN notice = Moved /\ DOMAIN notice[p] = 1..Len(site[p])
      BY LenProperties DEF LinkTyped
    <2>2. CASE file = "index"
      BY <1>7, <2>2 DEF Sed
    <2>3. CASE file # "index"
      <3>1. notice' = [notice EXCEPT ![file] = [j \in DOMAIN @ |-> Rewritten(@[j])]]
        BY <2>3 DEF Sed
      <3>2. QED
        BY <2>1, <3>1
    <2>4. QED
      BY <2>2, <2>3
  <1>10. Single \subseteq Places
    BY <1>6, SingleLemma
  <1>11. /\ \A link \in Places : Rewritten(link) \in Places
         /\ Rewritten(NoLink) = NoLink /\ Rewritten(NoNotice) = NoNotice
    BY <1>2, <1>10, LinkAssumption DEF Rewritten
  <1>12. QED
    BY <1>2, <1>5, <1>8, <1>9, <1>11

LEMMA TypedNext == LinkTyped /\ [LinkNext]_linkVars => LinkTyped'
  <1> SUFFICES ASSUME LinkTyped, [LinkNext]_linkVars PROVE LinkTyped'
    OBVIOUS
  <1>1. site' = site
    BY DEF LinkNext, FindDocuments, Sed, RemoveBackups, Stop, linkVars
  <1>2. Moved' = Moved /\ Single' = Single
    BY <1>1, SameSite
  <1>3. CASE FindDocuments
    <2>1. index' = index /\ notice' = notice /\ complete' = complete
      BY <1>3 DEF FindDocuments
    <2>2. pairs' \in Seq(Single \X Places)
      BY <1>3, FoundLemma
    <2>3. QED
      BY <1>1, <1>2, <2>1, <2>2 DEF LinkTyped
  <1>4. ASSUME NEW file \in LinkFiles, Sed(file) PROVE LinkTyped'
    <2>1. complete' = complete /\ site \in Sites
      BY <1>4 DEF Sed, LinkTyped
    <2>2. pairs' \in Seq(Single \X Places)
      BY <1>4, SedLemma
    <2>3. index' \in [Places -> Places]
      <3>1. \A p \in Places : index'[p] \in Places
        BY <1>4, SedLemma DEF LinkTyped
      <3>2. index' = index \/ index' = [p \in Places |-> Rewritten(index[p])]
        BY <1>4 DEF Sed
      <3>3. QED
        BY <3>1, <3>2 DEF LinkTyped
    <2>4. /\ \A link \in Places : Rewritten(link) \in Places
          /\ Rewritten(NoLink) = NoLink /\ Rewritten(NoNotice) = NoNotice
      BY <1>4, SedLemma
    <2>5. notice' \in [Moved -> Seq(LinesBelow)] /\ \A p \in Moved : Len(notice'[p]) = Len(site[p])
      <3>1. CASE notice' = notice
        BY <3>1 DEF LinkTyped
      <3>2. CASE file \in Moved
                 /\ notice' = [notice EXCEPT ![file] = [k \in DOMAIN @ |-> Rewritten(@[k])]]
        <4>1. notice[file] \in Seq(LinesBelow) /\ Len(notice[file]) \in Nat
          BY <3>2, LenProperties DEF LinkTyped
        <4>2. \A line \in LinesBelow : Rewritten(line) \in LinesBelow
          BY <2>4 DEF LinesBelow
        <4> DEFINE lines == [k \in DOMAIN notice[file] |-> Rewritten(notice[file][k])]
        <4>3. lines \in [1..Len(notice[file]) -> LinesBelow]
          BY <4>1, <4>2
        <4>4. lines \in Seq(LinesBelow) /\ Len(lines) = Len(notice[file])
          BY <4>1, <4>3
        <4> HIDE DEF lines
        <4>5. notice' = [notice EXCEPT ![file] = lines]
          BY <3>2 DEF lines
        <4>6. QED
          BY <3>2, <4>4, <4>5 DEF LinkTyped
      <3>3. file \in Moved \/ file = "index"
        BY DEF LinkFiles
      <3>4. QED
        BY <1>4, <3>1, <3>2, <3>3 DEF Sed
    <2>6. ASSUME NEW p \in Moved, NEW k \in 1..Len(site[p])
          PROVE  /\ site[p][k] \in Places => notice'[p][k] \in Places
                 /\ site[p][k] \notin Places => notice'[p][k] = site[p][k]
      <3>1. notice'[p][k] = IF file = p THEN Rewritten(notice[p][k]) ELSE notice[p][k]
        BY <1>4, SedLemma
      <3>2. /\ site[p][k] \in Places => notice[p][k] \in Places
            /\ site[p][k] \notin Places => notice[p][k] = site[p][k]
        BY DEF LinkTyped
      <3>3. site[p][k] \notin Places => site[p][k] = NoLink \/ site[p][k] = NoNotice
        <4>1. site[p] \in Seq(LinesBelow)
          BY <2>1, LinkAssumption DEF LinesBelow, Moved
        <4>2. site[p][k] \in LinesBelow
          BY <4>1, ElementOfSeq
        <4>3. QED
          BY <4>2 DEF LinesBelow
      <3>4. QED
        BY <2>4, <3>1, <3>2, <3>3
    <2>7. QED
      BY <1>1, <1>2, <2>1, <2>2, <2>3, <2>5, <2>6 DEF LinkTyped
  <1>5. CASE RemoveBackups
    BY <1>1, <1>2, <1>5 DEF RemoveBackups, LinkTyped
  <1>6. CASE Stop
    BY <1>1, <1>2, <1>6 DEF Stop, LinkTyped
  <1>7. CASE UNCHANGED linkVars
    BY <1>1, <1>2, <1>7 DEF linkVars, LinkTyped
  <1>8. QED
    BY <1>3, <1>4, <1>5, <1>6, <1>7 DEF LinkNext

LEMMA FollowsNext == LinkTyped /\ Follows /\ [LinkNext]_linkVars => Follows'
  <1> SUFFICES ASSUME LinkTyped, Follows, [LinkNext]_linkVars PROVE Follows'
    OBVIOUS
  <1>1. site' = site /\ site \in Sites
    BY DEF LinkNext, FindDocuments, Sed, RemoveBackups, Stop, linkVars, LinkTyped
  <1>2. Moved' = Moved /\ Single' = Single /\ \A p : Ways(p)' = Ways(p)
    BY <1>1, SameSite
  <1>3. CASE FindDocuments
    <2>1. index' = index /\ notice' = notice
      BY <1>3 DEF FindDocuments
    <2>2. ASSUME NEW k \in 1..Len(pairs') PROVE pairs'[k][2] \in Ways(pairs'[k][1])
      <3> DEFINE d == pairs'[k][1]
      <3>1. d \in Single /\ pairs'[k][2] = notice[d][1]
        BY <1>3, FoundLemma, ElementOfSeq
      <3>2. d \in Places /\ d \in Moved /\ Len(site[d]) = 1 /\ site[d][1] \in Places
        BY <1>1, <3>1, SingleLemma
      <3> HIDE DEF d
      <3>3. notice[d][1] \in Ways(site[d][1])
        BY <3>2 DEF Follows
      <3>4. site[d][1] \in Ways(d)
        BY <1>1, <3>1, <3>2, WaysLemma
      <3>5. notice[d][1] \in Ways(d)
        BY <1>1, <3>2, <3>3, <3>4, WaysLemma
      <3>6. QED
        BY <3>1, <3>5 DEF d
    <2>3. QED
      BY <1>1, <1>2, <2>1, <2>2 DEF Follows
  <1>4. ASSUME NEW file \in LinkFiles, Sed(file) PROVE Follows'
    <2>1. /\ pairs[1] \in Single \X Places /\ Len(pairs) \in Nat /\ Len(pairs) >= 1
          /\ Head(pairs) = pairs[1]
          /\ \A k \in 1..Len(pairs') : \E j \in 1..Len(pairs) : pairs'[k] = pairs[j]
      BY <1>4, SedLemma
    <2>2. pairs[1][2] \in Ways(pairs[1][1])
      BY <2>1 DEF Follows
    <2>3. ASSUME NEW p \in Places, NEW q \in Ways(p) PROVE Rewritten(q) \in Ways(p)
      <3>1. Ways(q) \subseteq Ways(p)
        BY <1>1, WaysLemma
      <3>2. QED
        BY <2>1, <2>2, <3>1 DEF Rewritten
    <2>4. \A p \in Places : index'[p] \in Ways(p)
      BY <1>4, <2>3, SedLemma DEF Follows
    <2>5. ASSUME NEW p \in Moved, NEW k \in 1..Len(site[p]), site[p][k] \in Places
          PROVE  notice'[p][k] \in Ways(site[p][k])
      <3>1. notice'[p][k] = IF file = p THEN Rewritten(notice[p][k]) ELSE notice[p][k]
        BY <1>4, SedLemma
      <3>2. QED
        BY <2>3, <2>5, <3>1 DEF Follows
    <2>6. \A k \in 1..Len(pairs') : pairs'[k][2] \in Ways(pairs'[k][1])
      BY <2>1 DEF Follows
    <2>7. QED
      BY <1>1, <1>2, <2>4, <2>5, <2>6 DEF Follows
  <1>5. CASE RemoveBackups
    BY <1>1, <1>2, <1>5 DEF RemoveBackups, Follows
  <1>6. CASE Stop
    <2>1. Len(pairs') = 0
      BY <1>6 DEF Stop
    <2>2. QED
      BY <1>1, <1>2, <1>6, <2>1 DEF Stop, Follows
  <1>7. CASE UNCHANGED linkVars
    BY <1>1, <1>2, <1>7 DEF linkVars, Follows
  <1>8. QED
    BY <1>3, <1>4, <1>5, <1>6, <1>7 DEF LinkNext

\* A rewrite that is to come stays to come while sed passes another file, and
\* while it replaces links to another page.
LEMMA PendingLemma ==
    ASSUME LinkTyped, NEW file \in LinkFiles, Sed(file),
           NEW f \in LinkFiles, NEW x, Pending(x, f),
           f # file \/ x # pairs[1][1]
    PROVE  Pending(x, f)'
  <1>1. PICK k \in 1..Len(pairs) : pairs[k][1] = x /\ (k = 1 => f \notin done)
    BY DEF Pending
  <1>2. pairs \in Seq(Single \X Places) /\ pairs # <<>>
    BY DEF Sed, LinkTyped
  <1>3. /\ Len(pairs) \in Nat /\ Len(Tail(pairs)) = Len(pairs) - 1
        /\ \A j \in 1..(Len(pairs) - 1) : Tail(pairs)[j] = pairs[j + 1]
    BY <1>2
  <1>4. CASE done \union {file} = LinkFiles
    <2>1. pairs' = Tail(pairs) /\ done' = {}
      BY <1>4 DEF Sed
    <2>2. k # 1
      BY <1>1, <1>4
    <2>3. k - 1 \in 1..(Len(pairs) - 1) /\ k - 1 + 1 = k
      BY <1>3, <2>2
    <2>4. k - 1 \in 1..Len(pairs') /\ pairs'[k - 1][1] = x
      BY <1>1, <1>3, <2>1, <2>3
    <2>5. QED
      BY <2>1, <2>4 DEF Pending
  <1>5. CASE done \union {file} # LinkFiles
    <2>1. pairs' = pairs /\ done' = done \union {file}
      BY <1>5 DEF Sed
    <2>2. QED
      BY <1>1, <2>1 DEF Pending
  <1>6. QED
    BY <1>4, <1>5

\* A link that sed rewrites comes nearer by what the rewrite leads.
LEMMA NearerLemma ==
    ASSUME LinkTyped, NEW file \in LinkFiles, Sed(file),
           Nearer(pairs[1][2], pairs[1][1], 2^complete),
           NEW p \in Places, NEW q \in Places, NEW n \in Nat, Nearer(q, p, n)
    PROVE  /\ Nearer(Rewritten(q), p, n)
           /\ q = pairs[1][1] => Nearer(Rewritten(q), p, 2^complete + n)
  <1> DEFINE x == pairs[1][1]
             y == pairs[1][2]
             N == 2^complete
  <1>1. site \in Sites /\ N \in Nat
    BY PowerLemma DEF LinkTyped
  <1>2. x \in Single /\ y \in Places /\ Head(pairs) = pairs[1]
    BY SedLemma
  <1>3. x \in Places
    BY <1>1, <1>2, SingleLemma
  <1>4. /\ Rank(x) \in Nat /\ Rank(y) \in Nat /\ Rank(p) \in Nat /\ Rank(q) \in Nat
        /\ Rank(x) # 0
    BY <1>1, <1>2, <1>3, RankLemma
  <1>5. Rank(y) = 0 \/ Rank(y) + N <= Rank(x)
    BY DEF Nearer
  <1>6. Rank(q) = 0 \/ Rank(q) + n <= Rank(p)
    BY DEF Nearer
  <1>7. Rewritten(q) = IF q = x THEN y ELSE q
    BY <1>2 DEF Rewritten
  <1> HIDE DEF x, y, N
  <1>8. CASE q = x
    <2>1. Rank(y) = 0 \/ Rank(y) + n <= Rank(p)
      BY <1>1, <1>4, <1>5, <1>6, <1>8
    <2>2. Rank(y) = 0 \/ Rank(y) + (N + n) <= Rank(p)
      BY <1>1, <1>4, <1>5, <1>6, <1>8
    <2>3. QED
      BY <1>7, <1>8, <2>1, <2>2 DEF Nearer, x, N
  <1>9. CASE q # x
    BY <1>7, <1>9 DEF Nearer, x
  <1>10. QED
    BY <1>8, <1>9

\* Whether a link is still to be rewritten or has come nearer by n, sed leaves
\* one of them so.
LEMMA DoubledLemma ==
    ASSUME LinkTyped, NEW file \in LinkFiles, Sed(file),
           Nearer(pairs[1][2], pairs[1][1], 2^complete),
           NEW f \in LinkFiles, NEW p \in Places, NEW q \in Places, NEW n \in Nat,
           Nearer(q, p, n), NEW r, r = IF file = f THEN Rewritten(q) ELSE q,
           Pending(q, f) \/ Nearer(q, p, 2^complete + n)
    PROVE  Nearer(r, p, n) /\ (Pending(r, f)' \/ Nearer(r, p, 2^complete + n))
  <1>1. 2^complete + n \in Nat
    BY PowerLemma DEF LinkTyped
  <1>2. Nearer(r, p, n)
    BY NearerLemma
  <1>3. CASE Nearer(q, p, 2^complete + n)
    <2>1. Nearer(Rewritten(q), p, 2^complete + n)
      BY <1>1, <1>3, NearerLemma
    <2>2. QED
      BY <1>2, <1>3, <2>1
  <1>4. CASE Pending(q, f) /\ file = f /\ q = pairs[1][1]
    BY <1>2, <1>4, NearerLemma
  <1>5. CASE Pending(q, f) /\ (file # f \/ q # pairs[1][1])
    <2>1. r = q
      BY <1>5, SedLemma DEF Rewritten
    <2>2. QED
      BY <1>2, <1>5, <2>1, PendingLemma
  <1>6. QED
    BY <1>3, <1>4, <1>5

LEMMA ProgressNext ==
    ASSUME LinkTyped, Acyclic, Progress, [LinkNext]_linkVars
    PROVE  Progress'
  <1>1. site' = site /\ site \in Sites /\ complete \in Nat
    BY DEF LinkNext, FindDocuments, Sed, RemoveBackups, Stop, linkVars, LinkTyped
  <1>2. Moved' = Moved /\ Single' = Single /\ \A p : Rank(p)' = Rank(p)
    BY <1>1, SameSite
  <1>3. \A p \in Single : p \in Places /\ p \in Moved /\ Len(site[p]) = 1
                          /\ site[p][1] \in Places /\ 1 \in 1..Len(site[p])
    BY <1>1, SingleLemma
  <1>4. /\ \A p \in Places : index[p] \in Places
        /\ \A p \in Single : notice[p][1] \in Places
    BY <1>3 DEF LinkTyped
  <1>5. 2^complete \in Nat /\ 2^complete >= 1 /\ 2^complete - 1 \in Nat
    <2>1. 2^complete \in Nat /\ 2^complete >= 1
      BY <1>1, PowerLemma
    <2>2. \A n \in Nat : n >= 1 => n - 1 \in Nat
      OBVIOUS
    <2>3. QED
      BY <2>1, <2>2
  <1>6. CASE FindDocuments
    <2>1. index' = index /\ notice' = notice /\ complete' = complete /\ done' = {}
      BY <1>6 DEF FindDocuments
    <2>2. /\ \A k \in 1..Len(pairs') : /\ pairs'[k][1] \in Single
                                       /\ pairs'[k][2] = notice[pairs'[k][1]][1]
          /\ \A d \in Single : \E k \in 1..Len(pairs') : pairs'[k][1] = d
      BY <1>6, FoundLemma, ElementOfSeq
    <2>3. \A k \in 1..Len(pairs') : Nearer(pairs'[k][2], pairs'[k][1], 2^complete)
      BY <2>2 DEF Progress
    <2>4. ASSUME NEW q \in Places, NEW f, NEW p, NEW n PROVE Pending(q, f)' \/ Nearer(q, p, n)
      <3>1. CASE q \in Single
        BY <2>1, <2>2, <3>1 DEF Pending
      <3>2. CASE q \notin Single
        BY <1>1, <3>2, RankLemma DEF Nearer
      <3>3. QED
        BY <3>1, <3>2
    <2>5. QED
      BY <1>2, <1>4, <2>1, <2>3, <2>4 DEF Progress, Nearer
  <1>7. ASSUME NEW file \in LinkFiles, Sed(file) PROVE Progress'
    <2>1. complete' = complete /\ running' = running /\ running
      BY <1>7 DEF Sed
    <2>2. /\ Len(pairs) \in Nat /\ Len(pairs) >= 1
          /\ \A k \in 1..Len(pairs') : \E j \in 1..Len(pairs) : pairs'[k] = pairs[j]
          /\ \A p \in Places :
                index'[p] = IF file = "index" THEN Rewritten(index[p]) ELSE index[p]
          /\ \A p \in Moved : \A k \in 1..Len(site[p]) :
                notice'[p][k] = IF file = p THEN Rewritten(notice[p][k]) ELSE notice[p][k]
      BY <1>7, SedLemma
    <2>3. Nearer(pairs[1][2], pairs[1][1], 2^complete)
      BY <2>2 DEF Progress
    <2>4. \A k \in 1..Len(pairs') : Nearer(pairs'[k][2], pairs'[k][1], 2^complete)
      BY <2>2 DEF Progress
    <2>5. ASSUME NEW p \in Places, NEW r, r = index'[p]
          PROVE  /\ Nearer(r, p, 2^complete - 1)
                 /\ Pending(r, "index")' \/ Nearer(r, p, 2 * 2^complete - 1)
      <3>1. 2^complete + (2^complete - 1) = 2 * 2^complete - 1
        BY <1>5
      <3>2. /\ Nearer(index[p], p, 2^complete - 1)
            /\ Pending(index[p], "index") \/ Nearer(index[p], p, 2^complete + (2^complete - 1))
        BY <2>1, <3>1 DEF Progress
      <3>3. "index" \in LinkFiles /\ index[p] \in Places
        BY <1>4 DEF LinkFiles
      <3>4. r = IF file = "index" THEN Rewritten(index[p]) ELSE index[p]
        BY <2>2, <2>5
      <3>5. QED
        BY <1>5, <1>7, <2>3, <3>1, <3>2, <3>3, <3>4, DoubledLemma
    <2>6. ASSUME NEW p \in Single, NEW r, r = notice'[p][1]
          PROVE  /\ Nearer(r, p, 2^complete)
                 /\ Pending(r, p)' \/ Nearer(r, p, 2 * 2^complete)
      <3>1. 2^complete + 2^complete = 2 * 2^complete
        BY <1>5
      <3>2. /\ Nearer(notice[p][1], p, 2^complete)
            /\ Pending(notice[p][1], p) \/ Nearer(notice[p][1], p, 2^complete + 2^complete)
        BY <2>1, <3>1 DEF Progress
      <3>3. p \in LinkFiles /\ notice[p][1] \in Places /\ p \in Places
        BY <1>3, <1>4 DEF LinkFiles
      <3>4. r = IF file = p THEN Rewritten(notice[p][1]) ELSE notice[p][1]
        BY <1>3, <2>2, <2>6
      <3>5. QED
        BY <1>5, <1>7, <2>3, <3>1, <3>2, <3>3, <3>4, DoubledLemma
    <2>7. \A p \in Places : Pending(index[p], "index")' \/ Nearer(index'[p], p, 2 * 2^complete - 1)
      BY <2>5 DEF Pending
    <2>8. \A p \in Single : Pending(notice[p][1], p)' \/ Nearer(notice'[p][1], p, 2 * 2^complete)
      BY <2>6 DEF Pending
    <2>9. /\ \A p \in Places : Nearer(index'[p], p, 2^complete - 1)
          /\ \A p \in Single : Nearer(notice'[p][1], p, 2^complete)
      BY <2>5, <2>6
    <2>10. QED
      BY <1>2, <2>1, <2>4, <2>7, <2>8, <2>9 DEF Progress, Nearer
  <1>8. CASE RemoveBackups
    <2>1. /\ index' = index /\ notice' = notice /\ ~running' /\ running
          /\ Len(pairs) = 0 /\ pairs' = pairs /\ complete' = complete + 1
      BY <1>8 DEF RemoveBackups
    <2>2. \A q, f : ~Pending(q, f)
      BY <2>1 DEF Pending
    <2>3. 2^(complete + 1) = 2 * 2^complete
      BY <1>1, PowerLemma
    <2>4. /\ \A p \in Places : Nearer(index[p], p, 2^(complete + 1) - 1)
          /\ \A p \in Single : Nearer(notice[p][1], p, 2^(complete + 1))
      BY <2>1, <2>2, <2>3 DEF Progress
    <2>5. QED
      BY <1>2, <2>1, <2>4 DEF Progress, Nearer
  <1>9. CASE Stop
    <2>1. /\ index' = index /\ notice' = notice /\ ~running' /\ Len(pairs') = 0
          /\ complete' = complete
      BY <1>9 DEF Stop
    <2>2. QED
      BY <1>2, <2>1 DEF Progress, Nearer
  <1>10. CASE UNCHANGED linkVars
    BY <1>2, <1>10 DEF linkVars, Progress, Nearer, Pending
  <1>11. QED
    BY <1>6, <1>7, <1>8, <1>9, <1>10 DEF LinkNext

LEMMA LinkInitInv == LinkInit => LinkInv
  <1> SUFFICES ASSUME LinkInit PROVE LinkInv
    OBVIOUS
  <1>1. /\ site \in Sites /\ notice = site /\ pairs = <<>> /\ Len(pairs) = 0 /\ complete = 0
        /\ running = FALSE /\ index = [p \in Places |-> p]
    BY DEF LinkInit
  <1>2. site \in [Moved -> Seq(LinesBelow)]
    BY <1>1, LinkAssumption DEF Moved, LinesBelow
  <1>3. LinkTyped
    BY <1>1, <1>2 DEF LinkTyped
  <1>4. Moved \subseteq Places
    BY <1>1, SingleLemma
  <1>5. Follows
    <2>1. \A p \in Places : p \in Ways(p)
      BY <1>1, WaysLemma
    <2>2. QED
      BY <1>1, <1>4, <2>1 DEF Follows
  <1>6. ASSUME Acyclic PROVE Progress
    <2>1. 2^complete = 1
      BY <1>1, PowerLemma
    <2>2. \A p \in Places : Rank(p) \in Nat
      BY <1>1, RankLemma
    <2>3. \A p \in Places : Nearer(p, p, 0)
      BY <2>2 DEF Nearer
    <2>4. \A p \in Single : Nearer(site[p][1], p, 1)
      BY <1>1, <1>6, RankLemma DEF Nearer
    <2>5. 2^complete - 1 = 0
      BY <2>1
    <2>6. QED
      BY <1>1, <2>1, <2>3, <2>4, <2>5 DEF Progress
  <1>7. QED
    BY <1>3, <1>5, <1>6 DEF LinkInv

LEMMA LinkInvFollows == LinkInv => LinksFollowMoves
  <1> SUFFICES ASSUME LinkInv PROVE LinksFollowMoves
    OBVIOUS
  <1>1. LinkTyped /\ Follows /\ site \in Sites /\ complete \in Nat
    BY DEF LinkInv, LinkTyped
  <1>2. ASSUME NEW p \in Moved, NEW k \in DOMAIN notice[p], site[p][k] \in Places
        PROVE  notice[p][k] \in Ways(site[p][k])
    <2>1. DOMAIN notice[p] = 1..Len(site[p])
      BY <1>1, LenProperties DEF LinkTyped
    <2>2. QED
      BY <1>1, <1>2, <2>1 DEF Follows
  <1>3. ASSUME 2^complete > Cardinality(Single), Acyclic, NEW p \in Places
        PROVE  index[p] \notin Single
    <2>1. Nearer(index[p], p, 2^complete - 1)
      BY <1>3 DEF LinkInv, Progress
    <2>2. /\ index[p] \in Places
          /\ Rank(index[p]) \in Nat /\ Rank(p) \in Nat /\ Cardinality(Single) \in Nat
          /\ Rank(p) <= Cardinality(Single)
          /\ Rank(index[p]) = 0 => index[p] \notin Single
      BY <1>1, RankLemma DEF LinkTyped
    <2>3. 2^complete \in Nat
      BY <1>1, PowerLemma
    <2>4. Rank(index[p]) = 0 \/ Rank(index[p]) + (2^complete - 1) <= Rank(p)
      BY <2>1 DEF Nearer
    <2>5. Rank(index[p]) = 0
      BY <1>3, <2>2, <2>3, <2>4
    <2>6. QED
      BY <2>2, <2>5
  <1>4. QED
    BY <1>1, <1>2, <1>3 DEF LinksFollowMoves, Follows, Acyclic

\* Whatever moved where, in whatever order sed takes the files, and wherever
\* runs of update-user-guide-links.py are stopped: links lead where their pages
\* went, and n complete runs leave no link to a page that moved to one place,
\* if there are less than 2^n of these and none moved in a circle.
THEOREM LinksDoFollow == LinkSpec => []LinksFollowMoves
  <1>1. LinkInit => LinkInv
    BY LinkInitInv
  <1>2. LinkInv /\ [LinkNext]_linkVars => LinkInv'
    <2> SUFFICES ASSUME LinkInv, [LinkNext]_linkVars PROVE LinkInv'
      OBVIOUS
    <2>1. LinkTyped' /\ Follows'
      BY TypedNext, FollowsNext DEF LinkInv
    <2>2. Acyclic' = Acyclic
      <3>1. site' = site
        BY DEF LinkNext, FindDocuments, Sed, RemoveBackups, Stop, linkVars
      <3>2. QED
        BY <3>1, SameSite
    <2>3. Acyclic => Progress'
      BY ProgressNext DEF LinkInv
    <2>4. QED
      BY <2>1, <2>2, <2>3 DEF LinkInv
  <1>3. LinkInv => LinksFollowMoves
    BY LinkInvFollows
  <1>4. QED
    BY <1>1, <1>2, <1>3, PTL DEF LinkSpec
=============================================================================
