----------------------------- MODULE MCImportDocs -----------------------------
(***************************************************************************)
(* An instance of ImportDocs for TLC: a repository that generates and      *)
(* keeps its links and one whose links are made absolute; as in            *)
(* reference.yml, two entries have the same target.                        *)
(***************************************************************************)
EXTENDS ImportDocs

CONSTANTS heading, link, text, title1, title2

MCRepos ==
    << [generate |-> TRUE, absolute |-> FALSE,
        files |-> << [src |-> "kubelet.md", dst |-> "kubelet.md"] >>],
       [generate |-> FALSE, absolute |-> TRUE,
        files |-> << [src |-> "cloud-controller-manager.md",
                      dst |-> "kube-controller-manager.md"],
                     [src |-> "kube-controller-manager.md",
                      dst |-> "kube-controller-manager.md"] >>] >>

MCDocuments == {<<heading, link>>, <<title1, text>>, <<text>>}
MCOldFiles == {<<title2, text, text>>, <<text, text>>}
MCTitles == {title1, title2}
MCLinks == {link}
MCTexts == {text}
=============================================================================
