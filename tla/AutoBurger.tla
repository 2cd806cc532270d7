------------------------------ MODULE AutoBurger ------------------------------
(***************************************************************************)
(* How the push menus are made when a page is ready (script.js, pushmenu): *)
(* every element with data-auto-burger adds copies of its links and        *)
(* buttons to the menu of that name, made by the first of them, and each   *)
(* menu is then wrapped and entered in a table that show looks it up in.   *)
(***************************************************************************)
EXTENDS Naturals, Sequences, SequencesExt

CONSTANTS
    Pages   \* the data-auto-burger elements of a page, in document order, each
            \* with the name of its menu, id, and its descendants, items

ASSUME PagesAssumption ==
    Pages \subseteq Seq([id: STRING, items: Seq([tag: STRING, exclude: STRING])])

\* A descendant has a tag, "a" without href and "a[href]" told apart, and the
\* value of data-auto-burger-exclude, "absent" if it has none.
VARIABLES
    burgers,       \* the page's data-auto-burger elements
    collected,     \* how many of them are done
    menus,         \* the .pi-pushmenu elements of the body: id and entries
    allPushMenus   \* the ids entered, each with the entries of its menu

burgerVars == <<burgers, collected, menus, allPushMenus>>

BurgerInit ==
    /\ burgers \in Pages
    /\ collected = 0
    /\ menus = <<>>
    /\ allPushMenus = <<>>

-------------------------------------------------------------------------------
\* booleanAttributeValue, whose default is FALSE here.
Excluded(item) == item.exclude \in {"", "true"}

Offered(item) == item.tag \in {"a[href]", "button"} /\ ~Excluded(item)

\* The places of the items of the k-th element that are to be in its menu.
Offers(k) == {n \in DOMAIN burgers[k].items : Offered(burgers[k].items[n])}

\* A set of places in document order, the order that find and clone keep.
InOrder(places) ==
    CHOOSE order \in SetToSeqs(places) :
        \A j, k \in DOMAIN order : j < k => order[j] < order[k]

\* What the k-th element adds: copies of its items, a link for a button.
Copies(k) ==
    LET offered == InOrder(Offers(k))
    IN  [n \in DOMAIN offered |-> [tag |-> "a", of |-> <<k, offered[n]>>]]

MenuOf(id) == SelectInSeq(menus, LAMBDA menu : menu.id = id)

\* Faulty variant: each element makes a menu.
CollectAnew ==
    LET next == collected + 1
    IN  /\ collected < Len(burgers)
        /\ menus' = Append(menus, [id |-> burgers[next].id, entries |-> Copies(next)])
        /\ collected' = next
        /\ UNCHANGED <<burgers, allPushMenus>>

\* One round of the first loop.  Appending a menu that is there moves it to the
\* end of the body.
Collect ==
    LET next == collected + 1
        id == burgers[next].id
        there == MenuOf(id)
    IN  /\ collected < Len(burgers)
        /\ menus' = IF there = 0
                    THEN Append(menus, [id |-> id, entries |-> Copies(next)])
                    ELSE Append(RemoveAt(menus, there),
                                [menus[there] EXCEPT !.entries = @ \o Copies(next)])
        /\ collected' = next
        /\ UNCHANGED <<burgers, allPushMenus>>

\* The second loop: PushMenu moves the list into a sled.
Wrap ==
    LET next == Len(allPushMenus) + 1
    IN  /\ collected = Len(burgers) /\ next <= Len(menus)
        /\ allPushMenus' = Append(allPushMenus, menus[next])
        /\ UNCHANGED <<burgers, collected, menus>>

BurgerNext == Collect \/ Wrap

BurgerSpec == BurgerInit /\ [][BurgerNext]_burgerVars

BurgerReady == collected = Len(burgers) /\ Len(allPushMenus) = Len(menus)

-------------------------------------------------------------------------------
(* Properties.                                                             *)

\* The items of the page that belong to a menu, each the n-th of its element.
Expected(id) ==
    UNION {{k} \X Offers(k) : k \in {j \in DOMAIN burgers : burgers[j].id = id}}

\* Document order.
Precedes(place, other) ==
    place[1] < other[1] \/ (place[1] = other[1] /\ place[2] < other[2])

InDocumentOrder(entries) ==
    \A i, j \in DOMAIN entries : i < j => Precedes(entries[i].of, entries[j].of)

(***************************************************************************)
(* When the page is ready, show finds one menu for every name, with all    *)
(* links and buttons of the elements of that name but the excluded ones,   *)
(* in document order and none twice, however the elements of several menus *)
(* alternate: the later ones add to the menu that getElementById finds.    *)
(***************************************************************************)
MenusComplete ==
    BurgerReady =>
        \A k \in DOMAIN burgers :
            \E m \in DOMAIN allPushMenus :
                LET menu == allPushMenus[m]
                IN  /\ \A j \in DOMAIN allPushMenus :
                          allPushMenus[j].id = burgers[k].id <=> j = m
                    /\ {menu.entries[n].of : n \in DOMAIN menu.entries}
                           = Expected(burgers[k].id)
                    /\ InDocumentOrder(menu.entries)
===============================================================================
