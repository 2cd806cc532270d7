---------------------------- MODULE MCPageScripts ----------------------------
(***************************************************************************)
(* Instances for TLC of six scripts that share nothing, one of which runs  *)
(* in each behaviour: the accordion, the making of the push menus, the     *)
(* video player, the boxes of the partners, the redirects and the headings *)
(* of a user journey.                                                      *)
(***************************************************************************)
EXTENDS MCAccordion, AutoBurger, PartnerBoxes, Redirects, JourneyToc,
        VideoPlayer

VARIABLE script

allVars == <<vars, burgerVars, partnerVars, redirectVars, tocVars,
             videoVars, script>>

NoAccordion ==
    /\ on = {} /\ height = CollapseBox
    /\ moving = FALSE /\ yah = FALSE /\ early = FALSE
    /\ timers = NoTimeouts /\ clicks = 0
NoBurger == burgers = <<>> /\ collected = 0 /\ menus = <<>> /\ allPushMenus = <<>>
NoPartners ==
    /\ partners = <<>> /\ present = {} /\ sorted = FALSE
    /\ boxes = [c \in ContainerIds |-> <<>>] /\ current = 0 /\ broken = FALSE
NoRedirect ==
    /\ asked = <<"/">> /\ href = asked /\ forwarding = asked
    /\ round = 0 /\ redirects = 0 /\ loaded = FALSE
NoToc ==
    /\ headings = <<>> /\ document = <<>> /\ entries = <<>>
    /\ fragment = NoFragment /\ ready = FALSE /\ animations = <<>>
    /\ at = 0 /\ wanted = 0 /\ follows = 0

NoVideo ==
    /\ video = [displayed |-> FALSE, source |-> "none", overflow |-> "visible",
                handlers |-> 0]
    /\ fades = <<>> /\ shows = 0 /\ clicked = 0 /\ again = FALSE

MCInit ==
    \/ /\ script = "accordion" /\ Init
       /\ NoBurger /\ NoPartners /\ NoRedirect /\ NoToc /\ NoVideo
    \/ /\ script = "burger" /\ BurgerInit
       /\ NoAccordion /\ NoPartners /\ NoRedirect /\ NoToc /\ NoVideo
    \/ /\ script = "partners" /\ PartnersInit
       /\ NoAccordion /\ NoBurger /\ NoRedirect /\ NoToc /\ NoVideo
    \/ /\ script = "redirects" /\ RedirectInit
       /\ NoAccordion /\ NoBurger /\ NoPartners /\ NoToc /\ NoVideo
    \/ /\ script = "toc" /\ TocInit
       /\ NoAccordion /\ NoBurger /\ NoPartners /\ NoRedirect /\ NoVideo
    \/ /\ script = "video" /\ VideoInit
       /\ NoAccordion /\ NoBurger /\ NoPartners /\ NoRedirect /\ NoToc

MCNext ==
    /\ UNCHANGED script
    /\ \/ /\ script = "accordion" /\ Next
          /\ UNCHANGED <<burgerVars, partnerVars, redirectVars, tocVars, videoVars>>
       \/ /\ script = "burger" /\ BurgerNext
          /\ UNCHANGED <<vars, partnerVars, redirectVars, tocVars, videoVars>>
       \/ /\ script = "partners" /\ PartnersNext
          /\ UNCHANGED <<vars, burgerVars, redirectVars, tocVars, videoVars>>
       \/ /\ script = "redirects" /\ RedirectNext
          /\ UNCHANGED <<vars, burgerVars, partnerVars, tocVars, videoVars>>
       \/ /\ script = "toc" /\ TocNext
          /\ UNCHANGED <<vars, burgerVars, partnerVars, redirectVars, videoVars>>
       \/ /\ script = "video" /\ VideoNext
          /\ UNCHANGED <<vars, burgerVars, partnerVars, redirectVars, tocVars>>

MCSpec == MCInit /\ [][MCNext]_allVars /\ WF_allVars(MCNext /\ (Callback \/ Tick))

-------------------------------------------------------------------------------
Item(tag, exclude) == [tag |-> tag, exclude |-> exclude]
Elements == {Item("a[href]", "absent"), Item("a[href]", "true"),
             Item("a", "absent"), Item("button", ""), Item("button", "false")}
Burgers(n) == [id: {"primary", "secondary"}, items: BoundedSeq(Elements, n)]

\* Two elements with up to two items, or three with up to one.
MCPages == SeqOf(Burgers(2), 2) \union SeqOf(Burgers(1), 3)

MCTables == UNION {[1..n -> [name: 1..2, type: {0, 1}]] : n \in 0..2}
            \union [1..3 -> [name: 1..2, type: {2, 3, 4}]]
MCPagesOf == {{}, ContainerIds, ContainerIds \ {"dist"}}

Path == {"/", "README", "index", ".md", ".html", "404", "#"}
MCUrls == {<<"/">> \o rest : rest \in {r \in BoundedSeq(Path, 4) :
             Len(SelectSeq(r, LAMBDA t : t = "#")) <= 1}}
\* Up to three headings, one of which may have the id of an anchor.
MCContents ==
    {ids \in BoundedSeq({"setup", "deploy", "clean-up", "section-2"}, 3) :
        IsInjective(ids)}
MCSectionId == <<"section-1", "section-2", "section-3">>
=============================================================================
