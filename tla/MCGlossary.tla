------------------------------ MODULE MCGlossary ------------------------------
(***************************************************************************)
(* An instance of Glossary for TLC: three tags, and terms with none, one,  *)
(* two and all of them.                                                    *)
(***************************************************************************)
EXTENDS Glossary, TLC

CONSTANTS storage, tool, fundamental, pv, kubectl, pod, cncf

MCTagsOf ==
    pv :> {storage, fundamental} @@ kubectl :> {tool}
        @@ pod :> {storage, tool, fundamental} @@ cncf :> {}
=============================================================================
