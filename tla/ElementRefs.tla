---------------------------- MODULE ElementRefs ----------------------------
(***************************************************************************)
(* The elements of a page and the refs that tools name them by: the walk of*)
(* content-scripts/accessibilityTree.ts, which writes a ref on every       *)
(* element it lists, and the tools that list elements (readPage.ts,        *)
(* find.ts) and act on refs (formInput.ts, computer.ts).                   *)
(*                                                                         *)
(* A page is a forest, a tree for each of its frames.  The content script  *)
(* runs in all of them (manifest.json), each numbers the refs of its own   *)
(* document, and a message to the tab reaches them all: the first to answer*)
(* is heard.  Elements are numbers in document order, those of a frame     *)
(* follow each other, and 1 is the body of the tab's own document.  The    *)
(* page may change between any two steps of a tool; tools take turns.      *)
(***************************************************************************)
EXTENDS Naturals, FiniteSets

CONSTANT N   \* elements of a page

Elements == 1..N
Main == 1   \* the body of the tab's own document, which stands for that frame
Looks == {"gone", "hidden", "plain", "named"}   \* "plain" is only a container

VARIABLES
  parent,    \* the documents' trees, 0 above a body
  look,      \* of each element, as the page has it now
  script,    \* the frames, by their bodies, that the content script was put in
  mark,      \* the ref written on each element, 0 for none
  listed,    \* the elements in the trees that were built last
  call,      \* what the tool at work waits to do
  told,      \* refs that the client was told last, each with its element
  current,   \* no tree has been built since
  target     \* the ref that the tool at work is given, and the elements it acts on

pageVars == <<parent, look, script>>
vars == <<pageVars, mark, listed, call, told, current, target>>

AboveIn(p, e) ==
  LET up[f \in Elements] == IF p[f] = 0 THEN {} ELSE {p[f]} \union up[p[f]] IN up[e]
Above(e) == AboveIn(parent, e)

Trees == {p \in [Elements -> 0..N] :
            /\ \A e \in Elements : p[e] \in 0..(e - 1)
            /\ \A e \in Elements \ {Main} : p[e] \in {0, e - 1} \union AboveIn(p, e - 1)}

(* What two elements have above them, or are: none, if they are of two frames. *)
Common(e, f) == (Above(e) \union {e}) \intersect (Above(f) \union {f})
Frame(b) == {e \in Elements : e = b \/ b \in Above(e)}

TypeOK ==
  /\ parent \in Trees /\ look \in [Elements -> Looks] /\ script \subseteq Elements
  /\ mark \in [Elements -> 0..N] /\ listed \subseteq Elements
  /\ call \in {"none", "accessibility", "text", "collect", "act"}
  /\ told \subseteq (1..N) \X Elements /\ current \in BOOLEAN
  /\ target \in [ref : 0..N, by : {"form", "click", "none"}, hits : SUBSET Elements]

Target(ref, tool, elements) == [ref |-> ref, by |-> tool, hits |-> elements]
Untargeted == Target(0, "none", {})

Init ==
  /\ parent = [e \in Elements |-> IF e = Main THEN 0 ELSE Main]
  /\ look = [e \in Elements |-> "named"] /\ script = {Main}
  /\ mark = [e \in Elements |-> 0] /\ listed = {}
  /\ call = "none" /\ told = {} /\ current = FALSE /\ target = Untargeted

-----------------------------------------------------------------------------
(* The walk. *)

(* An element with a role that tells, a name, a value or a state. *)
Interesting(e) == look[e] = "named"

Children(e) == {c \in Elements : parent[c] = e}
Visible(e) == look[e] \in {"plain", "named"}

(* Slip: a container around a single element is kept. *)
Contributes_wrapper ==
  LET node[e \in Elements] ==
        LET kids == {node[c] : c \in Children(e)} \ {0} IN
        IF Visible(e) /\ (Interesting(e) \/ kids # {}) THEN e ELSE 0
  IN node

(* processElement: what an element contributes to its parent's list: itself, *)
(* if it has something to say or holds several that have; else its only such *)
(* child, or nothing (0).                                                    *)
Contributes ==
  LET node[e \in Elements] ==
        LET kids == {node[c] : c \in Children(e)} \ {0} IN
        CASE Visible(e) /\ (Interesting(e) \/ Cardinality(kids) > 1) -> e
          [] Visible(e) /\ look[e] = "plain" /\ Cardinality(kids) = 1 ->
               CHOOSE k \in kids : TRUE
          [] OTHER -> 0
  IN node

Reached(e) == \A f \in Above(e) \union {e} : Visible(f)
Kept == LET node == Contributes IN {e \in Elements : Reached(e) /\ node[e] = e}

(* Slip: the counter starts again for every parent. *)
Number_perParent(e) == Cardinality({f \in Kept : parent[f] = parent[e] /\ f <= e})

(* The counter is advanced for children before it is for their parent, and *)
(* is one of the frame's own.                                              *)
Before(e, f) == f \in Above(e) \/ (e < f /\ e \notin Above(f))
Number(e) == Cardinality({f \in Kept : Common(e, f) # {} /\ (f = e \/ Before(f, e))})

(* buildAccessibilityTree, in all frames that have the script: refs of elements *)
(* that are not kept stay as they are.                                          *)
Listing == {e \in Kept : \E b \in script : e \in Frame(b)}
Build ==
  /\ listed' = Listing
  /\ mark' = [e \in Elements |-> IF e \in listed' THEN Number(e) ELSE mark[e]]

(* findElementByRef in a frame: the first in document order that is marked so, or 0. *)
Attached(e) == \A f \in Above(e) \union {e} : look[f] # "gone"
Lookup(b, ref) ==
  LET found == {e \in Frame(b) : Attached(e) /\ mark[e] = ref} IN
  IF found = {} THEN 0 ELSE CHOOSE e \in found : \A f \in found : e <= f

(* The frames that a message to the tab reaches; each takes what it is sent in order. *)
Answering == {b \in script : look[b] # "gone"}

-----------------------------------------------------------------------------
(* The page. *)

(* A target that is no longer of interest is dropped. *)
NoTarget == target' = IF call = "act" THEN target ELSE Untargeted

(* An element is shown, hidden, named or removed; a body, with its frame. *)
Change(e, l) ==
  /\ e # Main /\ look[e] # "gone"
  /\ look' = [look EXCEPT ![e] = l]
  /\ NoTarget /\ UNCHANGED <<parent, script, mark, listed, call, told, current>>

(* New documents: their elements carry no refs, the client's are still known. *)
Navigate(tree) ==
  /\ parent' = tree /\ script' = {}
  /\ look' = [e \in Elements |-> IF \E c \in Elements : tree[c] = e THEN "plain" ELSE "named"]
  /\ mark' = [e \in Elements |-> 0] /\ listed' = {}
  /\ current' = FALSE
  /\ NoTarget /\ UNCHANGED <<call, told>>

(* A frame is idle, and gets the script. *)
Idle(b) ==
  /\ parent[b] = 0 /\ look[b] # "gone" /\ b \notin script
  /\ script' = script \union {b}
  /\ NoTarget /\ UNCHANGED <<parent, look, mark, listed, call, told, current>>

-----------------------------------------------------------------------------
(* The tools. *)

(* The refs in a frame's tree as text. *)
Telling(b) == {<<Number(e), e>> : e \in Kept \intersect Frame(b)}

(* The answer of a frame: as text it tells no refs. *)
Tell(b, format) ==
  IF format = "accessibility" THEN told' = Telling(b) /\ current' = TRUE
                              ELSE told' = told /\ current' = FALSE

(* injectAndRead: the script is put in the tab's own document and given 50 ms. *)
Inject(next) == script' = script \union {Main} /\ call' = next

(* read_page: the tree is built, unless there is nothing to list, by all that *)
(* are reached; if none is, or the first to answer has none, then once more.  *)
ReadPage(format) ==
  /\ call = "none"
  /\ \/ \E b \in Answering :
          /\ Build
          /\ IF Kept \intersect Frame(b) # {}
             THEN Tell(b, format) /\ UNCHANGED <<script, call>>
             ELSE Inject(format) /\ told' = told /\ current' = FALSE
     \/ Answering = {} /\ Inject(format) /\ UNCHANGED <<mark, listed, told, current>>
  /\ NoTarget /\ UNCHANGED <<parent, look>>

ReadInjected ==
  /\ call \in {"accessibility", "text"} /\ call' = "none"
  /\ \/ \E b \in Answering :
          /\ Build
          /\ IF Kept \intersect Frame(b) # {} THEN Tell(b, call) ELSE told' = told /\ current' = FALSE
     \/ Answering = {} /\ UNCHANGED <<mark, listed, told, current>>
  /\ NoTarget /\ UNCHANGED pageVars

(* find: the tree is built for its marks alone, as the script never answers  *)
(* with a tree; then the script is injected again, and what is marked in the *)
(* tab's own document is collected 50 ms later.                              *)
Find ==
  /\ call = "none" /\ Inject("collect")
  /\ IF Answering # {} THEN Build ELSE UNCHANGED <<mark, listed>>
  /\ current' = FALSE
  /\ NoTarget /\ UNCHANGED <<parent, look, told>>

(* The best matches are told, whatever they are. *)
Collect ==
  /\ call = "collect" /\ call' = "none"
  /\ LET marked == {e \in Frame(Main) : Attached(e) /\ mark[e] # 0} IN
     \E matches \in SUBSET marked :
       IF matches = {} THEN UNCHANGED <<told, current>>
       ELSE told' = {<<mark[e], e>> : e \in matches} /\ current' = TRUE
  /\ NoTarget /\ UNCHANGED <<pageVars, mark, listed>>

(* find_by_ref, for a click by ref: the first frame to answer says where its *)
(* element is, or that it has none.                                          *)
Click(ref) ==
  /\ call = "none"
  /\ \E b \in Answering : target' = Target(ref, "click", {Lookup(b, ref)} \ {0})
  /\ UNCHANGED <<pageVars, mark, listed, call, told, current>>

(* set_form_value in a frame: its element of that ref gets the value, if it is one *)
(* that takes it; the copy that form_input injects does the same.                 *)
SetValue(b, ref) == {Lookup(b, ref)} \ {0}

(* form_input: every frame that is reached sets the value of its element, whichever *)
(* answers; if none is, an injection and 50 ms later, the tab's own document does.  *)
Form(ref) ==
  /\ call = "none" /\ Answering # {}
  /\ target' = Target(ref, "form", UNION {SetValue(b, ref) : b \in Answering})
  /\ UNCHANGED <<pageVars, mark, listed, call, told, current>>

FormInject(ref) ==
  /\ call = "none" /\ Answering = {} /\ Inject("act")
  /\ target' = Target(ref, "none", {})
  /\ UNCHANGED <<parent, look, mark, listed, told, current>>

FormInjected ==
  /\ call = "act" /\ call' = "none"
  /\ target' = Target(target.ref, "form", SetValue(Main, target.ref))
  /\ UNCHANGED <<pageVars, mark, listed, told, current>>

Next ==
  \/ \E e \in Elements, l \in Looks : Change(e, l)
  \/ \E tree \in Trees : Navigate(tree)
  \/ \E b \in Elements : Idle(b)
  \/ \E format \in {"accessibility", "text"} : ReadPage(format)
  \/ ReadInjected \/ Find \/ Collect
  \/ \E pair \in told : Click(pair[1]) \/ Form(pair[1]) \/ FormInject(pair[1])
  \/ FormInjected

Spec == Init /\ [][Next]_vars

-----------------------------------------------------------------------------
(* What the walk lists is what can be seen and has something to say, and the *)
(* places of a document where such elements part: no wrapper, nothing hidden *)
(* by something above it, nothing twice.                                     *)
Shown == {e \in Elements : look[e] = "named" /\ Reached(e)}
Parting(e, f) == CHOOSE g \in Common(e, f) : \A h \in Common(e, f) : h <= g
ListingIsRight ==
  Kept = {g \in Elements : \E e, f \in Shown : Common(e, f) # {} /\ g = Parting(e, f)}

(* A tool that is given the ref of a listed element acts, in the frame that   *)
(* the element is of, on that element or on one that the listing left out:    *)
(* never on another that it lists; and form_input acts on one, while the      *)
(* element is there.  What it acts on in other frames is not said: each has   *)
(* refs of its own.                                                           *)
ActsOnWhatWasTold ==
  [][\A e \in listed :
       (target' # target /\ current /\ <<target'.ref, e>> \in told) =>
         /\ \A f \in target'.hits \intersect listed : Common(e, f) # {} => f = e
         /\ target'.by = "form" /\ Attached(e) =>
              \E f \in target'.hits : Common(e, f) # {}]_vars

=============================================================================
