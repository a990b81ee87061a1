---------------------------- MODULE ListingSplit -----------------------------
(***************************************************************************)
(* A listing that is too long for one event is published as an index and   *)
(* parts (split.rs), and put together again from the parts that arrive     *)
(* (render.rs render_v2, split.rs restitch_v2). A part carries siblings    *)
(* and the path of the folder they go under; a folder that is too long for *)
(* a part goes out as a shell, with its children in later parts. The calls *)
(* of pack_siblings in progress are a stack of jobs; a step adds an entry  *)
(* to a chunk, emits a chunk, or verifies one that was emitted.            *)
(*                                                                         *)
(* Nodes are numbered in preorder: the subtree of i is i..last[i]. A node  *)
(* weighs plainWeight[i] as text and sealedWeight[i] compressed and        *)
(* encrypted, a part the sum of its nodes and one for its envelope. Real   *)
(* sealing is not additive; that only changes which chunks are too long.   *)
(* Left out: the length of the index itself, the caps on counts and bytes, *)
(* and family members the index does not name (ListingFamily has those).   *)
(***************************************************************************)
EXTENDS Naturals, Sequences, FiniteSetsExt, SequencesExt

CONSTANTS
    MaxPlainNodes, MaxSealedNodes,  \* bounds of the model: nodes of a collection
    NodeWeights,                    \* weights a node may have
    PartLimit,                      \* max_bytes: the longest part
    MaxRounds                       \* rounds of verifying and packing again, 64 in the code

ASSUME SplitAssumption ==
    {MaxPlainNodes, MaxSealedNodes, PartLimit, MaxRounds} \cup NodeWeights \subseteq Nat \ {0}

VARIABLES
    last, plainWeight, sealedWeight,  \* the collection
    measure,              \* what PartLimit limits: "plain" text or "sealed" content
    phase,                \* "draft", "packing", "verifying", "published", "refused", "gave up"
    family,               \* the parts, in the order of the index
    jobs,                 \* the calls of pack_siblings in progress, the innermost first
    unverified,           \* the chunks of the last round that were not looked at yet
    rounds,               \* how often the chunks were verified
    arrived               \* the positions of the parts a reader has

collection == <<last, plainWeight, sealedWeight, measure>>
splitVars == <<collection, phase, family, jobs, unverified, rounds, arrived>>

-----------------------------------------------------------------------------
\* The collection.

Nodes == DOMAIN last
Subtree(i) == i .. last[i]

\* The folders that node i is in.
Around(i) == {j \in 1 .. i - 1 : i \in Subtree(j)}

\* The folder of node i, 0 at the top level.
Parent(i) == Max({0} \cup Around(i))

\* The entries of folder p, or of the top level.
Children(p) == {i \in Nodes : Around(i) = IF p = 0 THEN {} ELSE Around(p) \cup {p}}

Before(siblings, e) == Cardinality({s \in siblings : s < e})

\* Where node i stands: positions among siblings, from the top, counted from 0.
PathOf[i \in Nodes] ==
    LET position == Before(Children(Parent(i)), i)
    IN  IF Parent(i) = 0 THEN <<position>> ELSE Append(PathOf[Parent(i)], position)

\* Subtrees lie within each other or apart.
Forests(n) ==
    {l \in [1..n -> 1..n] :
        \A i \in 1..n : l[i] >= i /\ \A j \in i .. l[i] : l[j] <= l[i]}

-----------------------------------------------------------------------------
\* A chunk: siblings with all that is below them, or the shell of one folder.

Run(mount, tops) == [mount |-> mount, tops |-> tops, shell |-> FALSE]
ShellOf(mount, e) == [mount |-> mount, tops |-> {e}, shell |-> TRUE]

Carried(chunk) ==
    IF chunk.shell THEN chunk.tops ELSE UNION {Subtree(i) : i \in chunk.tops}

Length(chunk, weight) == 1 + SumFunctionOnSet(weight, Carried(chunk))

PlainLength(chunk) == Length(chunk, plainWeight)
Measured(chunk) == Length(chunk, IF measure = "plain" THEN plainWeight ELSE sealedWeight)

Fits(chunk) == Measured(chunk) <= PartLimit

-----------------------------------------------------------------------------
\* pack_siblings: the entries are taken in their order into the run until the budget is full.

Job(mount, siblings, left, run, budget) ==
    [mount |-> mount, siblings |-> siblings, left |-> left, run |-> run, budget |-> budget]

Begin(mount, siblings, budget) == <<Job(mount, siblings, siblings, {}, budget)>>

Current == Head(jobs)

Become(left, run) ==
    [jobs EXCEPT ![1] = Job(Current.mount, Current.siblings, left, run, Current.budget)]

Emit(chunk) == family' = Append(family, chunk)

\* The entry that comes next.
IsNext(e) == jobs # <<>> /\ e \in Current.left /\ \A s \in Current.left : e <= s

FitsBudget(e) == PlainLength(Run(Current.mount, Current.run \cup {e})) <= Current.budget

\* The next entry fits neither what is left of the budget nor the budget alone.
Overflows(e) == IsNext(e) /\ Current.run = {} /\ ~FitsBudget(e)

Fill ==
    \E e \in Nodes :
        /\ IsNext(e) /\ FitsBudget(e)
        /\ jobs' = Become(Current.left \ {e}, Current.run \cup {e})
        /\ UNCHANGED <<collection, phase, family, unverified, rounds, arrived>>

\* Mutant of Flush, for EachNodeOnce: the entry that did not fit is passed over.
FlushAndGoOn ==
    \E e \in Nodes :
        /\ IsNext(e) /\ Current.run # {} /\ ~FitsBudget(e)
        /\ Emit(Run(Current.mount, Current.run))
        /\ jobs' = Become(Current.left \ {e}, {})
        /\ UNCHANGED <<collection, phase, unverified, rounds, arrived>>

\* The run is a chunk when the next entry does not fit it, or there is none.
Flush ==
    /\ jobs # <<>> /\ Current.run # {}
    /\ \A e \in Nodes : IsNext(e) => ~FitsBudget(e)
    /\ Emit(Run(Current.mount, Current.run))
    /\ jobs' = Become(Current.left, {})
    /\ UNCHANGED <<collection, phase, unverified, rounds, arrived>>

\* Over the budget, but it fits the real measure.
ShipAlone ==
    \E e \in Nodes :
        /\ Overflows(e) /\ Fits(Run(Current.mount, {e}))
        /\ Emit(Run(Current.mount, {e}))
        /\ jobs' = Become(Current.left \ {e}, {})
        /\ UNCHANGED <<collection, phase, unverified, rounds, arrived>>

CanShed(e) == Children(e) # {} /\ Fits(ShellOf(Current.mount, e))

\* Mutant of ChildMount, for PartsReassemble: the position counted from 1.
ChildMountFromOne(e) == Append(Current.mount, Before(Current.siblings, e) + 1)

\* The path of the children of an entry: its position is among what is being packed.
ChildMount(e) == Append(Current.mount, Before(Current.siblings, e))

\* The shell, and a call for the children.
Shed ==
    \E e \in Nodes :
        /\ Overflows(e) /\ ~Fits(Run(Current.mount, {e})) /\ CanShed(e)
        /\ Emit(ShellOf(Current.mount, e))
        /\ jobs' = Begin(ChildMount(e), Children(e), Current.budget) \o Become(Current.left \ {e}, {})
        /\ UNCHANGED <<collection, phase, unverified, rounds, arrived>>

\* An error ends it all.
Fail(outcome) ==
    /\ phase' = outcome
    /\ family' = <<>> /\ jobs' = <<>> /\ unverified' = <<>>
    /\ UNCHANGED <<collection, rounds, arrived>>

Refuse ==
    \E e \in Nodes :
        /\ Overflows(e) /\ ~Fits(Run(Current.mount, {e})) /\ ~CanShed(e)
        /\ Fail("refused")

CallReturns ==
    /\ jobs # <<>> /\ Current.left = {} /\ Current.run = {}
    /\ jobs' = Tail(jobs)
    /\ UNCHANGED <<collection, phase, family, unverified, rounds, arrived>>

-----------------------------------------------------------------------------
\* pack_tree: rounds of verifying under the real measure, until nothing is too long.

\* The budget of the next try: the chunk's own text, scaled by what is too much, times 3/4.
Shrunk(chunk) ==
    Max({1, (PlainLength(chunk) * PartLimit * 3) \div (Measured(chunk) * 4)})

Split ==
    /\ phase = "draft"
    /\ phase' = "packing"
    /\ jobs' = Begin(<<>>, Children(0), PartLimit)
    /\ UNCHANGED <<collection, family, unverified, rounds, arrived>>

KeepChunk ==
    /\ jobs = <<>> /\ unverified # <<>>
    /\ Fits(Head(unverified))
    /\ Emit(Head(unverified))
    /\ unverified' = Tail(unverified)
    /\ UNCHANGED <<collection, phase, jobs, rounds, arrived>>

PackAgain ==
    /\ jobs = <<>> /\ unverified # <<>>
    /\ LET chunk == Head(unverified)
       IN  /\ ~Fits(chunk)
           /\ jobs' = Begin(chunk.mount, chunk.tops, Shrunk(chunk))
    /\ phase' = "packing"
    /\ unverified' = Tail(unverified)
    /\ UNCHANGED <<collection, family, rounds, arrived>>

RoundEnds == jobs = <<>> /\ unverified = <<>>

\* Something was packed since the last look.
Verify ==
    /\ RoundEnds /\ phase = "packing"
    /\ IF rounds = MaxRounds
       THEN Fail("gave up")
       ELSE /\ phase' = "verifying"
            /\ unverified' = family
            /\ family' = <<>>
            /\ rounds' = rounds + 1
            /\ UNCHANGED <<collection, jobs, arrived>>

Publish ==
    /\ RoundEnds /\ phase = "verifying"
    /\ phase' = "published"
    /\ UNCHANGED <<collection, family, jobs, unverified, rounds, arrived>>

-----------------------------------------------------------------------------
\* The reader. A tree in the making is a function from the places that are taken to nodes.

Nothing == [place \in {} |-> 0]

Resolvable(tree, mount) == mount = <<>> \/ mount \in DOMAIN tree

\* Appends the entries of a part to the children of the node at its mount.
Graft(tree, part) ==
    LET there == Cardinality({p \in DOMAIN tree : p # <<>> /\ Front(p) = part.mount})
        top(i) == CHOOSE t \in part.tops : i \in Subtree(t)
        place(i) ==
            Append(part.mount, there + Before(part.tops, top(i)))
            \o SubSeq(PathOf[i], Len(PathOf[top(i)]) + 1, Len(PathOf[i]))
        added == {<<place(i), i>> : i \in Carried(part)}
    IN  [p \in DOMAIN tree \cup {a[1] : a \in added} |->
            IF p \in DOMAIN tree THEN tree[p] ELSE (CHOOSE a \in added : a[1] = p)[2]]

\* One part in its turn: a mount that does not resolve is put down to loss when
\* something else is missing, and else the family is refused.
GraftPart(r, k, got) ==
    IF k \notin got \/ r.refused THEN r
    ELSE IF Resolvable(r.tree, family[k].mount)
    THEN [r EXCEPT !.tree = Graft(r.tree, family[k])]
    ELSE IF r.missing = {} THEN [r EXCEPT !.refused = TRUE]
    ELSE [r EXCEPT !.missing = @ \cup {k}]

Rendered(got) ==
    FoldLeft(LAMBDA r, k : GraftPart(r, k, got),
             [tree |-> Nothing, missing |-> DOMAIN family \ got, refused |-> FALSE],
             [k \in DOMAIN family |-> k])

-----------------------------------------------------------------------------
SplitInit ==
    /\ measure \in {"plain", "sealed"}
    /\ \E n \in 1 .. (IF measure = "plain" THEN MaxPlainNodes ELSE MaxSealedNodes) :
            /\ last \in Forests(n)
            /\ plainWeight \in [1..n -> NodeWeights]
            /\ sealedWeight \in IF measure = "plain" THEN {plainWeight} ELSE [1..n -> NodeWeights]
    /\ Measured(Run(<<>>, Children(0))) > PartLimit
    /\ phase = "draft" /\ family = <<>> /\ jobs = <<>> /\ unverified = <<>>
    /\ rounds = 0 /\ arrived = {}

\* A relay hands out a part; it may withhold any.
PartArrives(k) ==
    /\ phase = "published"
    /\ k \in DOMAIN family \ arrived
    /\ arrived' = arrived \cup {k}
    /\ UNCHANGED <<collection, phase, family, jobs, unverified, rounds>>

SplitNext ==
    \/ Fill \/ Flush \/ ShipAlone \/ Shed \/ Refuse \/ CallReturns
    \/ Split \/ KeepChunk \/ PackAgain \/ Verify \/ Publish
    \/ \E k \in DOMAIN family : PartArrives(k)

SplitSpec == SplitInit /\ [][SplitNext]_splitVars

-----------------------------------------------------------------------------
\* What is shown stands under its own folder, or at the top level if it belongs there.
UnderOwnFolder(tree) ==
    \A p \in DOMAIN tree :
        Parent(tree[p]) = IF Len(p) = 1 THEN 0 ELSE tree[Front(p)]

InFull == [p \in {PathOf[i] : i \in Nodes} |-> CHOOSE i \in Nodes : PathOf[i] = p]

\* Whatever parts a relay withholds, a reader is not shown a file under a folder it is
\* not in, loss is not taken for forgery, and a family of which nothing is missing is the
\* collection. Of families that were packed again this does not hold.
RenderHonest ==
    phase = "published" /\ rounds = 1 =>
        LET r == Rendered(arrived)
        IN  /\ ~r.refused
            /\ UnderOwnFolder(r.tree)
            /\ r.missing = {} => r.tree = InFull

\* What is cut up is put together again: what a reader is shown stands where it belongs
\* (RenderHonest), and packing comes to an end within its rounds.
PartsReassemble == RenderHonest /\ phase # "gave up"

\* However often chunks are packed again, the parts carry each node of the collection
\* once, none is too long, and no folder comes in a later part than what is in it, as the
\* comment on graft says (a reader that has all parts finds every mount).
EachNodeOnce ==
    phase = "published" =>
        /\ UNION {Carried(family[k]) : k \in DOMAIN family} = Nodes
        /\ \A k \in DOMAIN family : Fits(family[k])
        /\ \A j, k \in DOMAIN family : j < k =>
               /\ Carried(family[j]) \cap Carried(family[k]) = {}
               /\ \A i \in Carried(family[j]) : Around(i) \cap Carried(family[k]) = {}
=============================================================================
