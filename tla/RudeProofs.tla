---------------------------- MODULE RudeProofs ----------------------------
(***************************************************************************)
(* Proofs about rude, for every set of flows and blocks, every             *)
(* configuration and every number of failing calls and signals.            *)
(***************************************************************************)
EXTENDS Rude, TLAPS

(* Lists of blocks *)

Addresses == Blocks \cup {NULL}
Links == [Blocks -> Addresses]

\* No block on the way from p is met twice: none leads back to p, and no two lead
\* to the same block.
Simple(p, link) ==
    /\ \A b \in Walk(p, link) : link[b] # p
    /\ \A b, c \in Walk(p, link) : link[b] = link[c] /\ link[b] # NULL => b = c

\* NULL is neither a block nor a flow.
LEMMA NoBlock == NULL \notin Blocks /\ NULL \notin FlowIds
BY RudeAssumption, Zenon

\* What a walk meets is a set of blocks that the walk does not leave.
LEMMA WalkHas ==
    ASSUME NEW p \in Addresses, NEW link \in Links
    PROVE  Walk(p, link) \in SUBSET Blocks /\ Leads(p, link, Walk(p, link))
<1>1. p # NULL => p \in Walk(p, link)
  BY Zenon DEF Walk, Leads, Addresses
<1>2. ASSUME NEW b \in Walk(p, link), link[b] # NULL PROVE link[b] \in Walk(p, link)
  <2>1. b \in Blocks /\ link[b] \in Blocks
    BY <1>2, Zenon DEF Walk, Links, Addresses
  <2>2. ASSUME NEW A \in SUBSET Blocks, Leads(p, link, A) PROVE link[b] \in A
    <3>1. b \in A
      BY <2>2, Zenon DEF Walk
    <3> QED BY <1>2, <2>2, <3>1, Zenon DEF Leads
  <2> QED BY <2>1, <2>2, Zenon DEF Walk
<1>3. Walk(p, link) \in SUBSET Blocks
  BY Zenon DEF Walk
<1> QED BY <1>1, <1>2, <1>3, Zenon DEF Leads

\* It is in every such set.
LEMMA WalkLeast ==
    ASSUME NEW p, NEW link, NEW A \in SUBSET Blocks, Leads(p, link, A)
    PROVE  Walk(p, link) \subseteq A
BY Zenon DEF Walk

\* What a walk meets is the least set that it does not leave.
LEMMA WalkIs ==
    ASSUME NEW p, NEW link, NEW X \in SUBSET Blocks, Leads(p, link, X),
           \A A \in SUBSET Blocks : Leads(p, link, A) => X \subseteq A
    PROVE  Walk(p, link) = X
BY Zenon DEF Walk

\* A walk from NULL meets nothing.
LEMMA WalkEmpty ==
    ASSUME NEW link PROVE Walk(NULL, link) = {}
<1>1. Leads(NULL, link, {})
  BY Zenon DEF Leads
<1> QED BY <1>1, WalkIs

\* Links outside of the walk do not matter.
LEMMA WalkSame ==
    ASSUME NEW p \in Addresses, NEW link \in Links, NEW link2 \in Links,
           \A b \in Walk(p, link) : link2[b] = link[b]
    PROVE  /\ Walk(p, link2) = Walk(p, link)
           /\ Simple(p, link) => Simple(p, link2)
<1> DEFINE W == Walk(p, link)
<1>1. W \in SUBSET Blocks /\ Leads(p, link, W)
  BY WalkHas, Zenon
<1>2. Leads(p, link2, W)
  BY <1>1, Zenon DEF Leads
<1>3. ASSUME NEW A \in SUBSET Blocks, Leads(p, link2, A) PROVE W \subseteq A
  <2>1. Leads(p, link, A \cap W)
    BY <1>1, <1>3, Zenon DEF Leads
  <2>2. W \subseteq A \cap W
    BY <2>1, WalkLeast, Zenon
  <2> QED BY <2>2, Zenon
<1>4. Walk(p, link2) = W
  <2> HIDE DEF W
  <2> QED BY <1>1, <1>2, <1>3, WalkIs, Zenon
<1> QED BY <1>4, Zenon DEF Simple

\* A block of the walk other than the first has one that leads to it.
LEMMA Before ==
    ASSUME NEW p \in Addresses, NEW link \in Links, NEW x \in Walk(p, link), x # p
    PROVE  \E b \in Walk(p, link) : link[b] = x
<1> DEFINE W == Walk(p, link)
<1>1. W \in SUBSET Blocks /\ Leads(p, link, W)
  BY WalkHas, Zenon
<1> SUFFICES ASSUME \A b \in W : link[b] # x PROVE FALSE
  BY Zenon
<1>2. Leads(p, link, W \ {x})
  BY <1>1, Zenon DEF Leads
<1>3. W \subseteq W \ {x}
  BY <1>1, <1>2, WalkLeast, Zenon
<1> QED BY <1>3, Zenon

\* On a simple list no block leads to itself.
LEMMA NoLoop ==
    ASSUME NEW p \in Addresses, NEW link \in Links, Simple(p, link), NEW x \in Walk(p, link)
    PROVE  link[x] # x
<1> DEFINE W == Walk(p, link)
<1>1. W \in SUBSET Blocks /\ Leads(p, link, W)
  BY WalkHas, Zenon
<1> SUFFICES ASSUME link[x] = x PROVE FALSE
  BY Zenon
<1>2. x # p /\ x # NULL
  BY <1>1, NoBlock, Zenon DEF Simple
<1>3. Leads(p, link, W \ {x})
  <2>1. \A b \in W : link[b] = x => b = x
    BY <1>2, Zenon DEF Simple
  <2> QED BY <1>1, <1>2, <2>1, Zenon DEF Leads
<1>4. W \subseteq W \ {x}
  BY <1>1, <1>3, WalkLeast, Zenon
<1> QED BY <1>4, Zenon

\* A block at the end.
LEMMA AtTheEnd ==
    ASSUME NEW p \in Addresses, NEW link \in Links, Simple(p, link),
           NEW last \in Walk(p, link), link[last] = NULL,
           NEW new \in Blocks \ Walk(p, link), link[new] = NULL
    PROVE  LET link2 == [link EXCEPT ![last] = new]
           IN  Walk(p, link2) = Walk(p, link) \cup {new} /\ Simple(p, link2)
<1> DEFINE W == Walk(p, link)
           link2 == [link EXCEPT ![last] = new]
<1>1. W \in SUBSET Blocks /\ Leads(p, link, W) /\ last \in Blocks
  BY WalkHas, Zenon
<1>2. p # NULL /\ p \in W
  BY <1>1, WalkEmpty, Zenon DEF Leads
<1>3. link2[last] = new /\ \A b \in Blocks \ {last} : link2[b] = link[b]
  BY <1>1, Zenon DEF Links
<1> HIDE DEF W, link2
<1>4. Leads(p, link2, W \cup {new})
  BY <1>1, <1>2, <1>3, Zenon DEF Leads, W
<1>5. ASSUME NEW A \in SUBSET Blocks, Leads(p, link2, A) PROVE W \cup {new} \subseteq A
  <2>1. Leads(p, link, A)
    BY <1>1, <1>3, <1>5, Zenon DEF Leads
  <2>2. W \subseteq A
    BY <2>1, WalkLeast, Zenon DEF W
  <2> QED BY <1>3, <1>5, <2>2, NoBlock DEF Leads, W
<1>6. Walk(p, link2) = W \cup {new}
  <2>1. W \cup {new} \in SUBSET Blocks
    BY <1>1, Zenon
  <2> QED BY <1>4, <1>5, <2>1, WalkIs, Zenon
<1>7. Simple(p, link2)
  BY <1>1, <1>2, <1>3, <1>6, NoBlock DEF Simple, Leads, W
<1> QED BY <1>6, <1>7, Zenon DEF W, link2

\* One block is linked to v, the others as before.
Relinked(link, x, v, link2) ==
    /\ link2 \in Links /\ link2[x] = v
    /\ \A b \in Blocks \ {x} : link2[b] = link[b]

\* What may take the place of x: its successor, or a new block that leads there.
Replaces(s, R, x, W, link) ==
    \/ R = {} /\ s = link[x]
    \/ R = {s} /\ s \in Blocks \ W /\ link[s] = link[x]

\* The first block is replaced or left out.
LEMMA SpliceFirst ==
    ASSUME NEW p \in Blocks, NEW link \in Links, Simple(p, link),
           NEW s, NEW R, Replaces(s, R, p, Walk(p, link), link)
    PROVE  Walk(s, link) = (Walk(p, link) \ {p}) \cup R /\ Simple(s, link)
<1> DEFINE W == Walk(p, link)
           X == (W \ {p}) \cup R
<1>1. W \in SUBSET Blocks /\ Leads(p, link, W) /\ p \in W
  BY WalkHas, NoBlock, Zenon DEF Leads, Addresses
<1>2. X \in SUBSET Blocks /\ s \in Addresses
  BY <1>1, Zenon DEF Replaces, Links, Addresses
<1>3. \A b \in W : link[b] # p
  BY Zenon DEF Simple
<1>4. Leads(s, link, X)
  BY <1>1, <1>3, Zenon DEF Leads, Replaces
<1>5. ASSUME NEW A \in SUBSET Blocks, Leads(s, link, A) PROVE X \subseteq A
  <2>1. Leads(p, link, A \cup {p})
    BY <1>1, <1>5, NoBlock, Zenon DEF Leads, Replaces
  <2>2. W \subseteq A \cup {p}
    BY <2>1, WalkLeast, Zenon
  <2> QED BY <1>5, <2>2, NoBlock, Zenon DEF Leads, Replaces
<1>6. Walk(s, link) = X
  <2> HIDE DEF X
  <2> QED BY <1>2, <1>4, <1>5, WalkIs, Zenon
<1>7. Simple(s, link)
  <2>1. CASE s = NULL
    BY <2>1, WalkEmpty, Zenon DEF Simple
  <2>2. CASE R = {} /\ s = link[p] /\ s # NULL
    BY <1>1, <1>6, <2>2, Zenon DEF Simple
  <2>3. CASE R = {s} /\ s \in Blocks \ W /\ link[s] = link[p]
    <3>1. \A b \in W : link[b] # s
      BY <1>1, <2>3, NoBlock, Zenon DEF Leads
    <3>2. \A b \in X : link[b] # s
      BY <1>1, <2>3, <3>1, Zenon DEF Leads
    <3>3. ASSUME NEW b \in X, NEW c \in X, link[b] = link[c], link[b] # NULL PROVE b = c
      <4>1. \A d \in W : link[d] = link[p] /\ link[d] # NULL => d = p
        BY <1>1, Zenon DEF Simple
      <4> QED BY <2>3, <3>3, <4>1, Zenon DEF Simple
    <3> QED BY <1>6, <3>2, <3>3, Zenon DEF Simple
  <2> QED BY <2>1, <2>2, <2>3, Zenon DEF Replaces
<1> QED BY <1>6, <1>7, Zenon

\* Something else takes the place of x, the successor of another block.
Spliced(p, link, before, x, s, R, link2) ==
    /\ p \in Blocks /\ link \in Links /\ Simple(p, link)
    /\ before \in Walk(p, link) /\ x \in Blocks /\ link[before] = x
    /\ Replaces(s, R, x, Walk(p, link), link) /\ Relinked(link, before, s, link2)

\* A block in the middle is replaced or left out.
LEMMA SpliceLater ==
    ASSUME NEW p, NEW link, NEW before, NEW x, NEW s, NEW R, NEW link2,
           Spliced(p, link, before, x, s, R, link2)
    PROVE  Walk(p, link2) = (Walk(p, link) \ {x}) \cup R /\ Simple(p, link2)
<1>0. /\ p \in Blocks /\ link \in Links /\ Simple(p, link)
      /\ before \in Walk(p, link) /\ x \in Blocks /\ link[before] = x
      /\ Replaces(s, R, x, Walk(p, link), link) /\ Relinked(link, before, s, link2)
  BY Zenon DEF Spliced
<1> DEFINE W == Walk(p, link)
           X == (W \ {x}) \cup R
<1>1. W \in SUBSET Blocks /\ Leads(p, link, W) /\ p \in W /\ x \in W
  BY <1>0, WalkHas, NoBlock, Zenon DEF Leads, Addresses
<1>2. X \in SUBSET Blocks /\ s \in Addresses
  BY <1>0, <1>1, Zenon DEF Replaces, Links, Addresses
<1>3. x # p /\ x # before /\ link[x] # x
  BY <1>0, <1>1, NoLoop DEF Simple, Addresses
<1>4. link2[before] = s /\ \A b \in Blocks \ {before} : link2[b] = link[b]
  BY <1>0, Zenon DEF Relinked
<1>5. \A b \in W \ {before} : link[b] # x
  BY <1>0, <1>1, NoBlock, Zenon DEF Simple
<1>6. Leads(p, link2, X)
  <2>1. CASE R = {} /\ s = link[x]
    BY <1>0, <1>1, <1>3, <1>4, <1>5, <2>1, Zenon DEF Leads
  <2>2. CASE R = {s} /\ s \in Blocks \ W /\ link[s] = link[x]
    BY <1>0, <1>1, <1>3, <1>4, <1>5, <2>2 DEF Leads
  <2> QED BY <1>0, <2>1, <2>2, Zenon DEF Replaces
<1>7. ASSUME NEW A \in SUBSET Blocks, Leads(p, link2, A) PROVE X \subseteq A
  <2>1. before \in A
    <3> SUFFICES ASSUME before \notin A PROVE FALSE
      BY Zenon
    <3>1. Leads(p, link, A)
      BY <1>0, <1>4, <1>7, Zenon DEF Leads
    <3>2. W \subseteq A
      BY <3>1, WalkLeast, Zenon
    <3> QED BY <1>0, <3>2, Zenon
  <2>2. s # NULL => s \in A
    BY <1>0, <1>4, <1>7, <2>1, Zenon DEF Leads
  <2>3. link[x] # NULL => link[x] \in A
    BY <1>0, <1>1, <1>4, <1>7, <2>2, NoBlock, Zenon DEF Leads, Replaces
  <2>4. Leads(p, link, A \cup {x})
    BY <1>0, <1>4, <1>7, <2>3, Zenon DEF Leads
  <2>5. W \subseteq A \cup {x}
    BY <1>0, <2>4, WalkLeast, Zenon
  <2> QED BY <1>0, <2>2, <2>5, NoBlock, Zenon DEF Replaces
<1>8. Walk(p, link2) = X
  <2> HIDE DEF X
  <2> QED BY <1>2, <1>6, <1>7, WalkIs, Zenon
<1>9. Simple(p, link2)
  <2>1. CASE R = {} /\ s = link[x]
    BY <1>0, <1>1, <1>3, <1>4, <1>8, <2>1 DEF Simple, Leads
  <2>2. CASE R = {s} /\ s \in Blocks \ W /\ link[s] = link[x]
    BY <1>0, <1>1, <1>3, <1>4, <1>5, <1>8, <2>2, NoBlock DEF Simple, Leads
  <2> QED BY <1>0, <2>1, <2>2, Zenon DEF Replaces
<1> QED BY <1>8, <1>9, Zenon

\* A block in front of the list.
LEMMA Push ==
    ASSUME NEW p \in Addresses, NEW link \in Links, Simple(p, link),
           NEW x \in Blocks \ Walk(p, link), NEW link2, Relinked(link, x, p, link2)
    PROVE  Walk(x, link2) = Walk(p, link) \cup {x} /\ Simple(x, link2)
<1> DEFINE W == Walk(p, link)
<1>1. W \in SUBSET Blocks /\ Leads(p, link, W)
  BY WalkHas, Zenon
<1>2. link2[x] = p /\ \A b \in Blocks \ {x} : link2[b] = link[b]
  BY Zenon DEF Relinked
<1>3. Leads(x, link2, W \cup {x})
  BY <1>1, <1>2, Zenon DEF Leads
<1>4. ASSUME NEW A \in SUBSET Blocks, Leads(x, link2, A) PROVE W \cup {x} \subseteq A
  <2>1. x \in A /\ (p # NULL => p \in A)
    BY <1>2, <1>4, NoBlock, Zenon DEF Leads
  <2>2. Leads(p, link, (A \cap W))
    BY <1>1, <1>2, <1>4, <2>1, Zenon DEF Leads
  <2>3. W \subseteq A \cap W
    BY <1>1, <2>2, WalkLeast, Zenon
  <2> QED BY <2>1, <2>3, Zenon
<1>5. Walk(x, link2) = W \cup {x}
  <2>1. W \cup {x} \in SUBSET Blocks
    BY <1>1, Zenon
  <2> HIDE DEF W
  <2> QED BY <1>3, <1>4, <2>1, WalkIs, Zenon
<1>6. Simple(x, link2)
  BY <1>1, <1>2, <1>5, NoBlock DEF Simple, Leads, Addresses
<1> QED BY <1>5, <1>6, Zenon

\* From every block on, a simple list is simple.
LEMMA SubWalk ==
    ASSUME NEW p \in Addresses, NEW link \in Links, Simple(p, link), NEW x \in Walk(p, link)
    PROVE  Walk(x, link) \subseteq Walk(p, link) /\ Simple(x, link)
<1> DEFINE W == Walk(p, link)
           V == Walk(x, link)
<1>1. W \in SUBSET Blocks /\ Leads(p, link, W) /\ x \in Blocks
  BY WalkHas, Zenon
<1>2. V \in SUBSET Blocks /\ Leads(x, link, V) /\ x \in V
  BY <1>1, WalkHas, NoBlock, Zenon DEF Leads, Addresses
<1>3. V \subseteq W
  <2>1. Leads(x, link, W)
    BY <1>1, Zenon DEF Leads
  <2> QED BY <1>1, <2>1, WalkLeast, Zenon
<1>4. ASSUME NEW b \in V, link[b] = x PROVE FALSE
  <2>1. x # p /\ b \in W
    BY <1>3, <1>4, Zenon DEF Simple
  <2>2. \A c \in V : \E d \in V : link[d] = c
    BY <1>1, <1>2, <1>4, Before DEF Addresses
  <2>3. p \notin V
    BY <1>3, <2>2, Zenon DEF Simple
  <2>4. \A c \in W \ V : link[c] \notin V
    BY <1>1, <1>2, <1>3, <2>2, NoBlock DEF Simple
  <2>5. Leads(p, link, W \ V)
    BY <1>1, <2>3, <2>4, Zenon DEF Leads
  <2>6. W \subseteq W \ V
    <3>1. W \ V \in SUBSET Blocks
      BY <1>1, Zenon
    <3> QED BY <2>5, <3>1, WalkLeast, Zenon
  <2> QED BY <1>2, <2>6, Zenon
<1> QED BY <1>3, <1>4, Zenon DEF Simple

\* All that is met from the blocks of a set.
All(E, link) == UNION {Walk(b, link) : b \in E}

\* The set has the blocks it starts from and what they lead to.
LEMMA AllHas ==
    ASSUME NEW E \in SUBSET Blocks, NEW link \in Links
    PROVE  /\ E \subseteq All(E, link) /\ All(E, link) \in SUBSET Blocks
           /\ \A b \in All(E, link) : link[b] # NULL => link[b] \in All(E, link)
<1>1. \A b \in E : /\ Walk(b, link) \in SUBSET Blocks /\ b \in Walk(b, link)
                   /\ \A c \in Walk(b, link) : link[c] # NULL => link[c] \in Walk(b, link)
  BY WalkHas, NoBlock, Zenon DEF Leads, Addresses
<1> QED BY <1>1, Zenon DEF All

\* It is in every such set.
LEMMA AllLeast ==
    ASSUME NEW E \in SUBSET Blocks, NEW link, NEW X \in SUBSET Blocks, E \subseteq X,
           \A b \in X : link[b] # NULL => link[b] \in X
    PROVE  All(E, link) \subseteq X
<1>1. \A b \in E : Leads(b, link, X)
  BY Zenon DEF Leads
<1>2. \A b \in E : Walk(b, link) \subseteq X
  BY <1>1, WalkLeast, Zenon
<1> QED BY <1>2, Zenon DEF All

\* It is the least such set.
LEMMA AllIs ==
    ASSUME NEW E \in SUBSET Blocks, NEW link \in Links, NEW X \in SUBSET Blocks, E \subseteq X,
           \A b \in X : link[b] # NULL => link[b] \in X,
           \A Y \in SUBSET Blocks :
              E \subseteq Y /\ (\A b \in Y : link[b] # NULL => link[b] \in Y) => X \subseteq Y
    PROVE  All(E, link) = X
<1>1. All(E, link) \subseteq X
  BY AllLeast, Zenon
<1>2. X \subseteq All(E, link)
  BY AllHas, Zenon
<1> QED BY <1>1, <1>2, Zenon

\* Links of other blocks do not matter.
LEMMA AllSame ==
    ASSUME NEW E \in SUBSET Blocks, NEW link \in Links, NEW link2 \in Links,
           \A b \in All(E, link) : link2[b] = link[b]
    PROVE  All(E, link2) = All(E, link)
<1>1. \A b \in E : Walk(b, link) \subseteq All(E, link)
  BY Zenon DEF All
<1>2. \A b \in E : Walk(b, link2) = Walk(b, link)
  BY <1>1, WalkSame DEF Addresses
<1> QED BY <1>2, Zenon DEF All

\* A block and what follows it is a block less and its successor.
LEMMA AllWithout ==
    ASSUME NEW E \in SUBSET Blocks, NEW link \in Links, NEW x \in E,
           \A b \in All(E, link) : link[b] \notin E,
           NEW F, F = (E \ {x}) \cup ({link[x]} \ {NULL})
    PROVE  All(F, link) = All(E, link) \ {x}
<1> DEFINE A == All(E, link)
           B == All(F, link)
<1>1. /\ E \subseteq A /\ A \in SUBSET Blocks
      /\ \A b \in A : link[b] # NULL => link[b] \in A
  BY AllHas, Zenon
<1>2. F \in SUBSET Blocks /\ F \subseteq A \ {x}
  BY <1>1, Zenon DEF Links, Addresses
<1>3. /\ F \subseteq B /\ B \in SUBSET Blocks
      /\ \A b \in B : link[b] # NULL => link[b] \in B
  BY <1>2, AllHas, Zenon
<1>4. B \subseteq A \ {x}
  <2>1. \A b \in A \ {x} : link[b] # NULL => link[b] \in A \ {x}
    BY <1>1, Zenon
  <2> HIDE DEF A
  <2> QED BY <1>1, <1>2, <2>1, AllLeast, Zenon
<1>5. A \subseteq B \cup {x}
  <2>1. E \subseteq B \cup {x} /\ B \cup {x} \in SUBSET Blocks
    BY <1>1, <1>3, Zenon
  <2>2. \A b \in B \cup {x} : link[b] # NULL => link[b] \in B \cup {x}
    BY <1>3, Zenon
  <2> HIDE DEF B
  <2> QED BY <2>1, <2>2, AllLeast, Zenon
<1> QED BY <1>4, <1>5, Zenon

\* A block that leads nowhere is a list of its own.
LEMMA Alone ==
    ASSUME NEW link, NEW x \in Blocks, link[x] = NULL
    PROVE  Walk(x, link) = {x} /\ Simple(x, link)
<1>1. Leads(x, link, {x})
  BY Zenon DEF Leads
<1>2. \A A \in SUBSET Blocks : Leads(x, link, A) => {x} \subseteq A
  BY NoBlock, Zenon DEF Leads
<1>3. Walk(x, link) = {x}
  BY <1>1, <1>2, WalkIs
<1> QED BY <1>3, NoBlock, Zenon DEF Simple

\* Such a block adds itself.
LEMMA AllNew ==
    ASSUME NEW E \in SUBSET Blocks, NEW link \in Links, NEW x \in Blocks, link[x] = NULL
    PROVE  All(E \cup {x}, link) = All(E, link) \cup {x}
BY Alone DEF All

\* A block linked behind the last one adds itself.
LEMMA AllAfter ==
    ASSUME NEW E \in SUBSET Blocks, NEW link \in Links, NEW last \in All(E, link),
           link[last] = NULL, NEW new \in Blocks, new \notin All(E, link), link[new] = NULL,
           NEW link2 \in Links, link2[last] = new, \A b \in Blocks \ {last} : link2[b] = link[b]
    PROVE  All(E, link2) = All(E, link) \cup {new}
<1> DEFINE A == All(E, link)
<1>1. /\ E \subseteq A /\ A \in SUBSET Blocks
      /\ \A b \in A : link[b] # NULL => link[b] \in A
  BY AllHas, Zenon
<1>2. \A b \in A \cup {new} : link2[b] # NULL => link2[b] \in A \cup {new}
  BY <1>1, Zenon
<1>3. ASSUME NEW Y \in SUBSET Blocks, E \subseteq Y,
             \A b \in Y : link2[b] # NULL => link2[b] \in Y
      PROVE  A \cup {new} \subseteq Y
  <2>1. \A b \in Y : link[b] # NULL => link[b] \in Y
    BY <1>3, Zenon
  <2>2. A \subseteq Y
    BY <1>3, <2>1, AllLeast, Zenon
  <2> QED BY <1>1, <1>3, <2>2, NoBlock
<1>4. A \cup {new} \in SUBSET Blocks /\ E \subseteq A \cup {new}
  BY <1>1, Zenon
<1>5. All(E, link2) \subseteq A \cup {new}
  <2> HIDE DEF A
  <2> QED BY <1>2, <1>4, AllLeast, Zenon
<1>6. A \cup {new} \subseteq All(E, link2)
  <2>1. /\ E \subseteq All(E, link2) /\ All(E, link2) \in SUBSET Blocks
        /\ \A b \in All(E, link2) : link2[b] # NULL => link2[b] \in All(E, link2)
    BY AllHas, Zenon
  <2> QED BY <1>3, <2>1, Zenon
<1> QED BY <1>5, <1>6, Zenon

\* The same for a walk.
LEMMA WalkAfter ==
    ASSUME NEW p \in Blocks, NEW link \in Links, NEW last \in Walk(p, link), link[last] = NULL,
           NEW new \in Blocks, new \notin Walk(p, link), link[new] = NULL,
           NEW link2 \in Links, link2[last] = new, \A b \in Blocks \ {last} : link2[b] = link[b]
    PROVE  Walk(p, link2) = Walk(p, link) \cup {new}
<1>1. \A l : All({p}, l) = Walk(p, l)
  BY Zenon DEF All
<1>2. All({p}, link2) = All({p}, link) \cup {new}
  BY <1>1, AllAfter
<1> QED BY <1>1, <1>2, Zenon
-----------------------------------------------------------------------------
(* The inductive invariant *)

Ending == {"cu_close", "cu_zero", "cu_unlink", "cu_relink", "cu_free", "cu_done", "cu_dfree",
           "exit", "gone"}
Removing == {"rm_init", "rm_zero", "rm_unlink"}
Reading == {"options", "parse"}
Labels ==
    {"init", "socket", "start", "priority", "run", "scan", "wait", "rm_link", "restore"}
       \cup Reading \cup Removing \cup Ending

Structures ==
    [next : Addresses, mod_flow : Addresses, flow_id : FlowIds \cup {NULL}, flow_start : Nat,
     flow_stop : Nat, next_tx : Nat, traffic : Traffic \cup {NULL}, list_index : Nat,
     send_sock : BOOLEAN, sequence_nmbr : Nat, errors : Nat, success : Nat]

\* The types of the variables.
Types ==
    /\ pc \in Labels
    /\ mem \in [Blocks -> Structures]
    /\ head \in Addresses /\ done \in Addresses /\ flow \in Addresses /\ prev \in Addresses
    /\ target \in Addresses /\ tmp1 \in Addresses
    /\ start_set \in BOOLEAN /\ errors \in BOOLEAN /\ commands \in BOOLEAN /\ buffer \in BOOLEAN
    /\ tester_start \in Nat /\ checked \in Nat /\ now \in Nat /\ failures \in Nat /\ signals \in Nat
    /\ open \subseteq FlowIds
    /\ sent \in [FlowIds -> Nat] /\ closes \in [FlowIds -> Nat]
    /\ frees \in [Addresses -> Nat]

\* The list that the program is working on.  While clean_up replaces the first
\* block by the next one of the flow, the old block still leads to the others.
First == IF pc = "cu_relink" THEN tmp1 ELSE head
Row == Walk(First, Next_)
Kept == UNION {Walk(b, ModFlow) : b \in Row}

\* The two lists have no block in common and no way back; a block is the first of a
\* flow or follows another one of the same flow, and those that follow are linked
\* to no other flow, or to the same as the first.
Lists ==
    /\ Simple(First, Next_) /\ Simple(done, Next_)
    /\ Kept \cap Done = {}
    /\ \A b \in Kept : mem[b].mod_flow \notin Row
    /\ \A b, c \in Kept : mem[b].mod_flow = mem[c].mod_flow /\ mem[b].mod_flow # NULL => b = c
    /\ \A b \in Kept : mem[b].mod_flow # NULL =>
          /\ mem[mem[b].mod_flow].flow_id = mem[b].flow_id
          /\ mem[mem[b].mod_flow].next # NULL =>
                b \in Row /\ mem[mem[b].mod_flow].next = mem[b].next
    /\ \A b, c \in Row : mem[b].flow_id = mem[c].flow_id => b = c
    /\ \A b \in Kept \cup Done : mem[b].flow_id # NULL /\ frees[b] = 0
    /\ \A b \in Blocks : mem[b].flow_id = NULL => mem[b] = Zero

\* A block that has been taken off a list and is on none.
Off(b) == b \in Blocks \ (Kept \cup Done) /\ mem[b].flow_id # NULL

\* What the program knows of the lists at each label.
Places ==
    /\ pc = "options" => head = NULL
    /\ pc \in Reading => done = NULL /\ buffer = FALSE
    /\ pc = "parse" =>
          /\ Row # {} => \E l \in Row : mem[l].next = NULL
          /\ \A b \in Row : \E l \in Walk(b, ModFlow) : mem[l].mod_flow = NULL
    /\ pc \in Removing => flow \in Row
    /\ pc = "rm_zero" => mem[flow].mod_flow = NULL
    /\ pc = "rm_unlink" /\ mem[flow].mod_flow = NULL => ~mem[flow].send_sock
    /\ pc = "rm_unlink" /\ mem[flow].mod_flow # NULL =>
          /\ mem[mem[flow].mod_flow].next = mem[flow].next
          /\ mem[mem[flow].mod_flow].send_sock = mem[flow].send_sock
          /\ mem[mem[flow].mod_flow].sequence_nmbr = mem[flow].sequence_nmbr
    /\ pc \notin Ending =>
          \A b \in Kept \ Row : mem[b].next # NULL => pc = "rm_unlink" /\ b = mem[flow].mod_flow
    /\ pc = "rm_link" => Off(flow) /\ frees[flow] = 0
    /\ pc \in {"cu_zero", "cu_unlink"} => tmp1 = head /\ head # NULL
    /\ pc = "cu_relink" => tmp1 # NULL /\ head = mem[tmp1].mod_flow /\ head # NULL
    /\ pc \in {"cu_unlink", "cu_relink"} => ~mem[tmp1].send_sock
    /\ pc \in {"cu_free", "cu_dfree"} => Off(tmp1)
    /\ pc \in {"cu_done", "cu_dfree", "exit", "gone"} => head = NULL
    /\ pc \in {"exit", "gone"} => done = NULL
    /\ signals > 0 => pc \in Ending

\* The times of the blocks.
Data ==
    /\ \A b \in Kept :
          /\ mem[b].traffic \in Traffic
          /\ mem[b].traffic.waits # <<>> => mem[b].list_index \in 1 .. Len(mem[b].traffic.waits)
          /\ ~errors => mem[b].flow_start <= mem[b].next_tx
          /\ mem[b].flow_stop # 0 => mem[b].flow_start <= mem[b].flow_stop
          /\ mem[b].mod_flow # NULL => mem[b].flow_stop <= mem[mem[b].mod_flow].flow_start
    /\ pc \notin Reading /\ ~errors =>
          \A b \in Kept : /\ mem[b].flow_stop # 0
                          /\ mem[b].traffic.waits = <<>> => mem[b].next_tx > mem[b].flow_stop
    /\ pc \notin Reading \cup Ending => ~errors
    /\ pc \notin Reading \cup Ending \cup {"init", "socket", "start"} => now >= tester_start

\* How far a walk along the active list has come: the part that is ahead of it.
Position == IF pc = "rm_link" THEN (IF prev # NULL THEN mem[prev].next ELSE head) ELSE flow
Ahead == Walk(Position, Next_)
Passed == Row \ Ahead

\* find_next has chosen the earliest of the flows it has passed, if any.
Scan ==
    /\ pc \in {"scan", "rm_link"} \cup Removing =>
          /\ prev = NULL => Position = head
          /\ prev # NULL => Position = mem[prev].next
          /\ Ahead \subseteq Row
          /\ prev # NULL => prev \in Passed
          /\ target = NULL <=> Passed = {}
          /\ target # NULL => target \in Passed
          /\ \A b \in Passed : mem[target].next_tx <= mem[b].next_tx
          /\ target # NULL => mem[target].next_tx <= mem[target].flow_stop
    /\ pc = "wait" =>
          /\ target \in Row
          /\ \A b \in Row : mem[target].next_tx <= mem[b].next_tx
          /\ mem[target].next_tx <= mem[target].flow_stop
    /\ pc = "socket" => Ahead \subseteq Row

\* The sockets of the flows, as long as no signal comes.
Half ==
    {f \in FlowIds : \/ pc = "rm_zero" /\ f = mem[flow].flow_id
                     \/ pc = "cu_zero" /\ f = mem[head].flow_id}
Sockets ==
    /\ signals = 0 =>
          /\ open = {mem[b].flow_id : b \in {c \in Row : mem[c].send_sock}} \ Half
          /\ \A f \in FlowIds : closes[f] <= 1 /\ (f \in open => closes[f] = 0)
          /\ \A b \in Kept \ Row : mem[b].send_sock => pc = "rm_unlink" /\ b = mem[flow].mod_flow
    /\ pc \in Reading \cup {"init", "socket"} => \A f \in FlowIds : closes[f] = 0
    /\ pc \in Reading => \A f \in FlowIds : sent[f] = 0
    /\ pc = "socket" => failures > 0 \/ \A b \in Passed : mem[b].send_sock
    /\ pc \notin Reading \cup Ending \cup {"init", "socket"} =>
          \A b \in Row : mem[b].send_sock \/ (pc = "rm_unlink" /\ b = flow /\ mem[flow].mod_flow = NULL)
    /\ pc \notin Ending => \A b \in Row : mem[b].sequence_nmbr = sent[mem[b].flow_id]

\* What has been freed, as long as no signal comes.
Freed ==
    signals = 0 =>
       /\ \A b \in Blocks : mem[b].flow_id = NULL => frees[b] = 0
       /\ \A b \in Blocks : mem[b].flow_id # NULL =>
             \/ frees[b] = 1
             \/ frees[b] = 0 /\ (b \in Kept \cup Done \/ (pc = "rm_link" /\ b = flow)
                                   \/ (pc \in {"cu_free", "cu_dfree"} /\ b = tmp1))
       /\ pc \in {"cu_free", "cu_dfree"} => frees[tmp1] = 0
       /\ pc \in {"exit", "gone"} /\ buffer => frees[NULL] = 1
       /\ ~(pc \in {"exit", "gone"} /\ buffer) => frees[NULL] = 0
       /\ sched = "SCHED_OTHER" \/ failures > 0
             \/ pc \in {"run", "scan", "wait", "rm_link", "restore"} \cup Removing

Inv == Types /\ Lists /\ Places /\ Data /\ Scan /\ Sockets /\ Freed

\* Two structures that differ in their socket at most.
Alike(r, s) ==
    /\ r.next = s.next /\ r.mod_flow = s.mod_flow /\ r.flow_id = s.flow_id
    /\ r.flow_start = s.flow_start /\ r.flow_stop = s.flow_stop /\ r.next_tx = s.next_tx
    /\ r.traffic = s.traffic /\ r.list_index = s.list_index
    /\ r.sequence_nmbr = s.sequence_nmbr

\* What is left of a structure when its socket changes.
LEMMA WithSocket ==
    ASSUME NEW s \in Structures, NEW v \in BOOLEAN
    PROVE  LET r == [s EXCEPT !.send_sock = v]
           IN  r \in Structures /\ r.send_sock = v /\ Alike(r, s)
<1> DEFINE r == [s EXCEPT !.send_sock = v]
<1>1. r.send_sock = v
  BY Zenon DEF Structures
<1>2. r \in Structures
  BY Zenon DEF Structures
<1>3. Alike(r, s)
  BY Zenon DEF Structures, Alike
<1> QED BY <1>1, <1>2, <1>3, Zenon
-----------------------------------------------------------------------------
(* What the invariant says of the lists *)

\* The types of the fields of a structure.
LEMMA Fields ==
    ASSUME Types, NEW b \in Blocks
    PROVE  /\ mem[b].next \in Addresses /\ mem[b].mod_flow \in Addresses
           /\ mem[b].flow_id \in FlowIds \cup {NULL} /\ mem[b].traffic \in Traffic \cup {NULL}
           /\ mem[b].flow_start \in Nat /\ mem[b].flow_stop \in Nat /\ mem[b].next_tx \in Nat
           /\ mem[b].list_index \in Nat /\ mem[b].sequence_nmbr \in Nat
           /\ mem[b].send_sock \in BOOLEAN
           /\ mem[b].errors \in Nat /\ mem[b].success \in Nat
<1>1. mem[b] \in Structures
  BY Zenon DEF Types
<1> QED BY <1>1, Zenon DEF Structures

\* The sets of blocks that the invariant speaks of, and their links.
LEMMA Shape ==
    ASSUME Types
    PROVE  /\ Next_ \in Links /\ ModFlow \in Links
           /\ \A b \in Blocks : Next_[b] = mem[b].next /\ ModFlow[b] = mem[b].mod_flow
           /\ {First, head, done, flow, prev, target, tmp1} \subseteq Addresses
           /\ Row \in SUBSET Blocks /\ Done \in SUBSET Blocks /\ Kept \in SUBSET Blocks
           /\ Row \subseteq Kept /\ Kept = All(Row, ModFlow)
           /\ IF First = NULL THEN Row = {} /\ Kept = {} ELSE First \in Row
           /\ IF done = NULL THEN Done = {} ELSE done \in Done
           /\ \A b \in Row : mem[b].next # NULL => mem[b].next \in Row
           /\ \A b \in Done : mem[b].next # NULL => mem[b].next \in Done
           /\ \A b \in Kept : mem[b].mod_flow # NULL => mem[b].mod_flow \in Kept
<1>1. \A b \in Blocks : mem[b].next \in Addresses /\ mem[b].mod_flow \in Addresses
  BY Fields, Zenon
<1>2. Next_ \in Links /\ ModFlow \in Links
  BY <1>1, Zenon DEF Links, Next_, ModFlow
<1>3. \A b \in Blocks : Next_[b] = mem[b].next /\ ModFlow[b] = mem[b].mod_flow
  BY Zenon DEF Next_, ModFlow
<1>4. {First, head, done, flow, prev, target, tmp1} \subseteq Addresses
  BY Zenon DEF Types, First
<1>5. Row \in SUBSET Blocks /\ Leads(First, Next_, Row)
  BY <1>2, <1>4, WalkHas, Zenon DEF Row
<1>6. Done \in SUBSET Blocks /\ Leads(done, Next_, Done)
  BY <1>2, <1>4, WalkHas, Zenon DEF Done
<1>7. Kept = All(Row, ModFlow)
  BY Zenon DEF Kept, All
<1>8. /\ Kept \in SUBSET Blocks /\ Row \subseteq Kept
      /\ \A b \in Kept : ModFlow[b] # NULL => ModFlow[b] \in Kept
  BY <1>2, <1>5, <1>7, AllHas, Zenon
<1>9. First = NULL => Row = {} /\ Kept = {}
  BY WalkEmpty, Zenon DEF Row, Kept
<1>10. done = NULL => Done = {}
  BY WalkEmpty, Zenon DEF Done
<1> QED BY <1>2, <1>3, <1>4, <1>5, <1>6, <1>7, <1>8, <1>9, <1>10, Zenon DEF Leads

\* The links decide on the lists.
LEMMA Same ==
    ASSUME \A b \in Blocks : mem'[b].next = mem[b].next /\ mem'[b].mod_flow = mem[b].mod_flow,
           First' = First, done' = done
    PROVE  Next_' = Next_ /\ ModFlow' = ModFlow /\ Row' = Row /\ Done' = Done /\ Kept' = Kept
<1>1. Next_' = Next_ /\ ModFlow' = ModFlow
  BY Zenon DEF Next_, ModFlow
<1>2. Row' = Row /\ Done' = Done
  BY <1>1, Zenon DEF Row, Done
<1> QED BY <1>1, <1>2, Zenon DEF Kept

\* A step that keeps the active list.
LEMMA ListsKept ==
    ASSUME Types, Lists, Row' = Row, Kept' = Kept,
           \A b \in Kept : /\ mem'[b].next = mem[b].next /\ mem'[b].mod_flow = mem[b].mod_flow
                           /\ mem'[b].flow_id = mem[b].flow_id,
           Simple(First', Next_'), Simple(done', Next_'), Kept \cap Done' = {},
           \A b \in Kept \cup Done' : mem'[b].flow_id # NULL /\ frees'[b] = 0,
           \A b \in Blocks : mem'[b].flow_id = NULL => mem'[b] = Zero
    PROVE  Lists'
<1>1. /\ Row \subseteq Kept
      /\ \A b \in Kept : mem[b].mod_flow # NULL => mem[b].mod_flow \in Kept
  BY Shape, Zenon
<1>2. ASSUME NEW b \in Kept, mem'[b].mod_flow # NULL
      PROVE  /\ mem'[mem'[b].mod_flow].flow_id = mem'[b].flow_id
             /\ mem'[mem'[b].mod_flow].next # NULL =>
                   b \in Row /\ mem'[mem'[b].mod_flow].next = mem'[b].next
  <2>1. mem'[b].mod_flow = mem[b].mod_flow /\ mem[b].mod_flow \in Kept
    BY <1>1, <1>2, Zenon
  <2>2. /\ mem[mem[b].mod_flow].flow_id = mem[b].flow_id
        /\ mem[mem[b].mod_flow].next # NULL => b \in Row /\ mem[mem[b].mod_flow].next = mem[b].next
    BY <1>2, <2>1, Zenon DEF Lists
  <2> QED BY <2>1, <2>2, Zenon
<1>3. \A b \in Kept : mem'[b].mod_flow \notin Row
  BY Zenon DEF Lists
<1>4. ASSUME NEW b \in Kept, NEW c \in Kept, mem'[b].mod_flow = mem'[c].mod_flow,
             mem'[b].mod_flow # NULL
      PROVE  b = c
  <2>1. mem[b].mod_flow = mem[c].mod_flow /\ mem[b].mod_flow # NULL
    BY <1>4, Zenon
  <2> QED BY <2>1, ZenonT(60) DEF Lists
<1>5. ASSUME NEW b \in Row, NEW c \in Row, mem'[b].flow_id = mem'[c].flow_id PROVE b = c
  <2>1. mem[b].flow_id = mem[c].flow_id
    BY <1>1, <1>5, Zenon
  <2> QED BY <2>1, Zenon DEF Lists
<1> QED BY <1>2, <1>3, <1>4, <1>5, ZenonT(60) DEF Lists

\* A step that keeps the links and the flows keeps the lists.
LEMMA ListsSame ==
    ASSUME Types, Lists,
           \A b \in Blocks : /\ mem'[b].next = mem[b].next /\ mem'[b].mod_flow = mem[b].mod_flow
                             /\ mem'[b].flow_id = mem[b].flow_id
                             /\ mem'[b].flow_id = NULL => mem'[b] = Zero,
           \A b \in Kept \cup Done : frees'[b] = frees[b],
           First' = First, done' = done
    PROVE  Lists'
<1>1. Next_' = Next_ /\ ModFlow' = ModFlow /\ Row' = Row /\ Done' = Done /\ Kept' = Kept
  BY Same, Zenon
<1>2. Row \in SUBSET Blocks /\ Done \in SUBSET Blocks /\ Kept \in SUBSET Blocks
  BY Shape, Zenon
<1>3. \A b \in Kept \cup Done : mem'[b].flow_id # NULL /\ frees'[b] = 0
  BY <1>2, Zenon DEF Lists
<1>4. Simple(First', Next_') /\ Simple(done', Next_') /\ Kept \cap Done' = {}
  BY <1>1, Zenon DEF Lists
<1> QED BY <1>1, <1>2, <1>3, <1>4, ListsKept, Zenon

\* A step that leaves the blocks and the lists alone.
Quiet == /\ mem' = mem /\ First' = First /\ done' = done
         /\ \A b \in Kept \cup Done : frees'[b] = frees[b]

\* The lists after such a step.
LEMMA QuietLists ==
    ASSUME Types, Lists, Quiet
    PROVE  /\ Lists' /\ mem' = mem
           /\ Next_' = Next_ /\ ModFlow' = ModFlow /\ Row' = Row /\ Done' = Done /\ Kept' = Kept
<1>1. \A b \in Blocks : mem[b].flow_id = NULL => mem[b] = Zero
  BY Zenon DEF Lists
<1>2. Lists'
  BY <1>1, ListsSame, Zenon DEF Quiet
<1> QED BY <1>2, Same, Zenon DEF Quiet

\* main reads the options and opens the configuration.
LEMMA ReadOptionsStep ==
    ASSUME Inv, ReadOptions PROVE Inv'
<1> SUFFICES ASSUME Types, Lists, Places, Data, Scan, Sockets, Freed PROVE Inv'
  BY Zenon DEF Inv
<1> USE DEF ReadOptions, lists, parser, locals, system, Labels, Reading, Removing, Ending
<1>2. Types'
  BY Zenon DEF Types
<1>3. Quiet
  BY Zenon DEF Quiet, First
<1>4. /\ Lists' /\ mem' = mem
      /\ Next_' = Next_ /\ ModFlow' = ModFlow /\ Row' = Row /\ Done' = Done /\ Kept' = Kept
  BY <1>3, QuietLists, Zenon
<1>5. First = NULL /\ Row = {} /\ Kept = {}
  <2>1. First = NULL
    BY Zenon DEF Places, First
  <2> QED BY <2>1, Shape, Zenon
<1>6. Places'
  BY <1>4, <1>5, Zenon DEF Places
<1>7. Data'
  BY <1>4, <1>5, Zenon DEF Data
<1>8. Scan'
  BY <1>4, Zenon DEF Scan
<1>9. Sockets'
  BY <1>4 DEF Sockets, Half
<1>10. Freed'
  BY <1>4, Zenon DEF Freed, Places
<1> QED BY <1>2, <1>4, <1>6, <1>7, <1>8, <1>9, <1>10, Zenon DEF Inv

\* From a block of the active list on.
LEMMA Rest ==
    ASSUME Types, Lists, NEW x \in Row
    PROVE  /\ Walk(x, Next_) \subseteq Row /\ x \in Walk(x, Next_)
           /\ Walk(mem[x].next, Next_) = Walk(x, Next_) \ {x}
<1>1. /\ Next_ \in Links /\ First \in Addresses /\ x \in Blocks /\ Next_[x] = mem[x].next
      /\ x \in Walk(First, Next_) /\ Simple(First, Next_)
  BY Shape, Zenon DEF Row, Lists
<1>2. Walk(x, Next_) \subseteq Row /\ Simple(x, Next_)
  BY <1>1, SubWalk, Zenon DEF Row
<1>3. x \in Walk(x, Next_)
  BY <1>1, WalkHas, NoBlock, Zenon DEF Leads, Addresses
<1>4. Walk(mem[x].next, Next_) = (Walk(x, Next_) \ {x}) \cup {}
  <2>1. Replaces(mem[x].next, {}, x, Walk(x, Next_), Next_)
    BY <1>1, Zenon DEF Replaces
  <2> QED BY <1>1, <1>2, <2>1, SpliceFirst, Zenon
<1> QED BY <1>2, <1>3, <1>4, Zenon

\* A step that changes the blocks in use, but neither the lists nor the flows.
Steady ==
    /\ First' = First /\ done' = done /\ frees' = frees
    /\ \A b \in Blocks :
          /\ mem'[b].next = mem[b].next /\ mem'[b].mod_flow = mem[b].mod_flow
          /\ mem'[b].flow_id = mem[b].flow_id
          /\ mem'[b] = mem[b] \/ mem[b].flow_id # NULL

\* The lists after such a step.
LEMMA SteadyLists ==
    ASSUME Types, Lists, Steady
    PROVE  /\ Lists'
           /\ Next_' = Next_ /\ ModFlow' = ModFlow /\ Row' = Row /\ Done' = Done /\ Kept' = Kept
<1>1. \A b \in Blocks : mem[b].flow_id = NULL => mem[b] = Zero
  BY Zenon DEF Lists
<1>2. Lists'
  BY <1>1, ListsSame, Zenon DEF Steady
<1> QED BY <1>2, Same, Zenon DEF Steady

\* Two structures that agree on the times of the block.
SameTimes(r, s) ==
    /\ r.mod_flow = s.mod_flow /\ r.flow_start = s.flow_start /\ r.flow_stop = s.flow_stop
    /\ r.next_tx = s.next_tx /\ r.traffic = s.traffic /\ r.list_index = s.list_index

\* A step that keeps the times of the blocks.
LEMMA DataSame ==
    ASSUME Types, Data, Kept' \in SUBSET Kept,
           \A b \in Kept : SameTimes(mem'[b], mem[b]),
           errors' = errors, now' = now, tester_start' = tester_start,
           pc' \in Reading <=> pc \in Reading,
           pc' \notin Reading \cup Ending => pc \notin Reading \cup Ending,
           pc' \notin Reading \cup Ending \cup {"init", "socket", "start"} =>
              pc \notin Reading \cup Ending \cup {"init", "socket", "start"}
    PROVE  Data'
<1>1. \A b \in Kept : mem[b].mod_flow # NULL => mem[b].mod_flow \in Kept
  BY Shape, Zenon
<1>2. ASSUME NEW b \in Kept'
      PROVE  /\ mem'[b].traffic \in Traffic
             /\ mem'[b].traffic.waits # <<>> => mem'[b].list_index \in 1 .. Len(mem'[b].traffic.waits)
             /\ ~errors' => mem'[b].flow_start <= mem'[b].next_tx
             /\ mem'[b].flow_stop # 0 => mem'[b].flow_start <= mem'[b].flow_stop
             /\ mem'[b].mod_flow # NULL => mem'[b].flow_stop <= mem'[mem'[b].mod_flow].flow_start
  <2>1. b \in Kept /\ SameTimes(mem'[b], mem[b])
    BY <1>2, Zenon
  <2>2. mem[b].mod_flow # NULL =>
           mem'[mem[b].mod_flow].flow_start = mem[mem[b].mod_flow].flow_start
    BY <1>1, <2>1, Zenon DEF SameTimes
  <2> QED BY <2>1, <2>2, Zenon DEF Data, SameTimes
<1>3. ASSUME pc' \notin Reading /\ ~errors', NEW b \in Kept'
      PROVE  /\ mem'[b].flow_stop # 0
             /\ mem'[b].traffic.waits = <<>> => mem'[b].next_tx > mem'[b].flow_stop
  BY <1>3, Zenon DEF Data, SameTimes
<1> QED BY <1>2, <1>3, Zenon DEF Data

\* A block in use has an identifier and is on one list.
LEMMA InUse ==
    ASSUME Types, Lists, NEW b \in Kept
    PROVE  b \in Blocks /\ mem[b].flow_id \in FlowIds /\ b \notin Done /\ frees[b] = 0
BY Shape, Fields, Zenon DEF Lists

\* The socket of one block changes.
LEMMA SocketSet ==
    ASSUME Types, NEW x \in Blocks, NEW v \in BOOLEAN, mem' = [mem EXCEPT ![x].send_sock = v]
    PROVE  /\ mem' \in [Blocks -> Structures]
           /\ \A b \in Blocks : Alike(mem'[b], mem[b])
           /\ \A b \in Blocks \ {x} : mem'[b] = mem[b]
           /\ mem'[x].send_sock = v
<1>1. mem \in [Blocks -> Structures]
  BY Zenon DEF Types
<1> DEFINE r == [mem[x] EXCEPT !.send_sock = v]
<1>2. r \in Structures /\ r.send_sock = v /\ Alike(r, mem[x])
  BY <1>1, WithSocket, Zenon
<1>3. mem' = [mem EXCEPT ![x] = r]
  BY Zenon
<1> HIDE DEF r
<1>4. \A b \in Blocks : Alike(mem[b], mem[b])
  BY Zenon DEF Alike
<1> QED BY <1>1, <1>2, <1>3, <1>4, Zenon

\* A flow has one socket.
LEMMA SocketsOff ==
    ASSUME Types, Lists, NEW x \in Row, NEW v \in BOOLEAN, mem' = [mem EXCEPT ![x].send_sock = v]
    PROVE  /\ v => {mem'[b].flow_id : b \in {c \in Row : mem'[c].send_sock}} =
                      {mem[b].flow_id : b \in {c \in Row : mem[c].send_sock}} \cup {mem[x].flow_id}
           /\ ~v => {mem'[b].flow_id : b \in {c \in Row : mem'[c].send_sock}} =
                       {mem[b].flow_id : b \in {c \in Row : mem[c].send_sock}} \ {mem[x].flow_id}
<1>1. Row \in SUBSET Blocks /\ x \in Blocks
  BY Shape, Zenon
<1>2. /\ \A b \in Row : mem'[b].flow_id = mem[b].flow_id
      /\ \A b \in Row \ {x} : mem'[b] = mem[b]
      /\ mem'[x].send_sock = v
  BY <1>1, SocketSet, Zenon DEF Alike
<1>3. \A b, c \in Row : mem[b].flow_id = mem[c].flow_id => b = c
  BY Zenon DEF Lists
<1>4. {mem'[b].flow_id : b \in {c \in Row : mem'[c].send_sock}} =
         {mem[b].flow_id : b \in {c \in Row : mem'[c].send_sock}}
  BY <1>2
<1>5. CASE v
  <2>1. {c \in Row : mem'[c].send_sock} = {c \in Row : mem[c].send_sock} \cup {x}
    BY <1>2, <1>5, Zenon
  <2> QED BY <1>4, <1>5, <2>1, Zenon
<1>6. CASE ~v
  <2>1. {c \in Row : mem'[c].send_sock} = {c \in Row : mem[c].send_sock} \ {x}
    BY <1>2, <1>6, Zenon
  <2>2. {mem[b].flow_id : b \in {c \in Row : mem[c].send_sock} \ {x}} =
           {mem[b].flow_id : b \in {c \in Row : mem[c].send_sock}} \ {mem[x].flow_id}
    BY <1>3, Zenon
  <2> QED BY <1>4, <1>6, <2>1, <2>2, Zenon
<1> QED BY <1>5, <1>6, Zenon

\* What the lines of the configuration that neither add nor stop a block have in common.
Remark ==
    /\ pc = "parse" /\ pc' = pc /\ errors' \in BOOLEAN /\ (errors => errors')
    /\ commands' \in BOOLEAN /\ start_set' \in BOOLEAN /\ tester_start' \in Nat
    /\ mem' = mem /\ head' = head /\ done' = done /\ frees' = frees
    /\ UNCHANGED <<flow, prev, target, checked, tmp1, open, buffer, sched, closes, now, failures,
                   signals, sent>>

\* A comment, a wrong line, TOS and START NOW.
LEMMA RemarkStep ==
    ASSUME Inv, Remark PROVE Inv'
<1> SUFFICES ASSUME Types, Lists, Places, Data, Scan, Sockets, Freed PROVE Inv'
  BY Zenon DEF Inv
<1> USE DEF Remark, Labels, Reading, Removing, Ending
<1>2. Types'
  BY Zenon DEF Types
<1>3. Quiet
  BY Zenon DEF Quiet, First
<1>4. /\ Lists' /\ mem' = mem
      /\ Next_' = Next_ /\ ModFlow' = ModFlow /\ Row' = Row /\ Done' = Done /\ Kept' = Kept
  BY <1>3, QuietLists, Zenon
<1>5. Places'
  BY <1>4, Zenon DEF Places
<1>6. Data'
  BY <1>4, Zenon DEF Data
<1>7. Scan'
  BY <1>4, Zenon DEF Scan
<1>8. Sockets'
  <2>1. Half' = Half
    BY <1>4, Zenon DEF Half
  <2> QED BY <1>4, <2>1, ZenonT(60) DEF Sockets
<1>9. Freed'
  BY <1>4, Zenon DEF Freed
<1> QED BY <1>2, <1>4, <1>5, <1>6, <1>7, <1>8, <1>9, Zenon DEF Inv

\* These four lines, as actions.
LEMMA LineStep ==
    ASSUME Inv, Comment \/ Invalid \/ Tos \/ start_now PROVE Inv'
<1>1. /\ errors \in BOOLEAN /\ commands \in BOOLEAN /\ start_set \in BOOLEAN
      /\ tester_start \in Nat /\ now \in Nat
  BY Zenon DEF Inv, Types
<1>2. CASE Comment
  BY <1>1, <1>2, RemarkStep, Zenon DEF Comment, Line, Count, Remark, locals, system
<1>3. CASE Invalid
  BY <1>1, <1>3, RemarkStep, Zenon DEF Invalid, Line, Count, Remark, locals, system
<1>4. CASE Tos
  BY <1>1, <1>4, RemarkStep, Zenon DEF Tos, Line, Count, Remark, locals, system
<1>5. CASE start_now
  BY <1>1, <1>5, RemarkStep, Zenon DEF start_now, Line, Count, Remark, locals, system
<1> QED BY <1>2, <1>3, <1>4, <1>5, Zenon

\* init_rude looks at what read_cfg found.
LEMMA init_rudeStep ==
    ASSUME Inv, init_rude PROVE Inv'
<1> SUFFICES ASSUME Types, Lists, Places, Data, Scan, Sockets, Freed PROVE Inv'
  BY Zenon DEF Inv
<1> USE DEF init_rude, Fail, lists, parser, locals, system, Labels, Reading, Removing, Ending
<1>2. Types'
  <2>1. pc' \in Labels /\ flow' \in Addresses
    BY Zenon DEF Types
  <2>2. buffer' \in BOOLEAN
    BY Zenon DEF Types
  <2>3. failures' \in Nat
    BY DEF Types
  <2> QED BY <2>1, <2>2, <2>3, Zenon DEF Types
<1>3. Quiet
  BY Zenon DEF Quiet, First
<1>4. /\ Lists' /\ mem' = mem
      /\ Next_' = Next_ /\ ModFlow' = ModFlow /\ Row' = Row /\ Done' = Done /\ Kept' = Kept
  BY <1>3, QuietLists, Zenon
<1>5. Places'
  BY <1>4, Zenon DEF Places
<1>6. Data'
  BY <1>4, Zenon DEF Data
<1>7. Scan'
  <2>1. pc' = "socket" => Ahead' = Row
    BY <1>4, Zenon DEF Ahead, Position, Row, First
  <2> QED BY <1>4, <2>1, Zenon DEF Scan
<1>8. Sockets'
  <2>1. pc' = "socket" => Passed' = {}
    BY <1>4, Zenon DEF Ahead, Position, Passed, Row, First
  <2> QED BY <1>4, <2>1 DEF Sockets, Half
<1>9. Freed'
  BY <1>4 DEF Freed, Types
<1> QED BY <1>2, <1>4, <1>5, <1>6, <1>7, <1>8, <1>9, Zenon DEF Inv

\* init_rude has tried to open the sockets.
LEMMA SocketsTriedStep ==
    ASSUME Inv, SocketsTried PROVE Inv'
<1> SUFFICES ASSUME Types, Lists, Places, Data, Scan, Sockets, Freed PROVE Inv'
  BY Zenon DEF Inv
<1> USE DEF SocketsTried, lists, parser, locals, system, Labels, Reading, Removing, Ending
<1>2. Types'
  BY Zenon DEF Types
<1>3. Quiet
  BY Zenon DEF Quiet, First
<1>4. /\ Lists' /\ mem' = mem
      /\ Next_' = Next_ /\ ModFlow' = ModFlow /\ Row' = Row /\ Done' = Done /\ Kept' = Kept
  BY <1>3, QuietLists, Zenon
<1>5. Places'
  BY <1>4, Zenon DEF Places
<1>6. Data'
  BY <1>4, Zenon DEF Data
<1>7. Scan'
  BY <1>4, Zenon DEF Scan
<1>8. Sockets'
  <2>1. Passed = Row /\ failures \in Nat
    BY WalkEmpty, Zenon DEF Passed, Ahead, Position, Types
  <2> QED BY <1>4, <2>1 DEF Sockets, Half
<1>9. Freed'
  BY <1>4, Zenon DEF Freed
<1> QED BY <1>2, <1>4, <1>5, <1>6, <1>7, <1>8, <1>9, Zenon DEF Inv

\* init_rude waits for START.
LEMMA StartLoopStep ==
    ASSUME Inv, StartLoop PROVE Inv'
<1> SUFFICES ASSUME Types, Lists, Places, Data, Scan, Sockets, Freed PROVE Inv'
  BY Zenon DEF Inv
<1> USE DEF StartLoop, lists, parser, locals, system, Labels, Reading, Removing, Ending
<1>2. Types'
  BY Zenon DEF Types
<1>3. Quiet
  BY Zenon DEF Quiet, First
<1>4. /\ Lists' /\ mem' = mem
      /\ Next_' = Next_ /\ ModFlow' = ModFlow /\ Row' = Row /\ Done' = Done /\ Kept' = Kept
  BY <1>3, QuietLists, Zenon
<1>5. Places'
  BY <1>4, Zenon DEF Places
<1>6. Data'
  BY <1>4, Zenon DEF Data
<1>7. Scan'
  BY <1>4, Zenon DEF Scan
<1>8. Sockets'
  <2>1. Half' = {} /\ Half = {}
    BY <1>4, Zenon DEF Half
  <2> QED BY <1>4, <2>1, ZenonT(60) DEF Sockets
<1>9. Freed'
  BY <1>4, Zenon DEF Freed
<1> QED BY <1>2, <1>4, <1>5, <1>6, <1>7, <1>8, <1>9, Zenon DEF Inv

\* main raises its priority.
LEMMA RaisePriorityStep ==
    ASSUME Inv, RaisePriority PROVE Inv'
<1> SUFFICES ASSUME Types, Lists, Places, Data, Scan, Sockets, Freed PROVE Inv'
  BY Zenon DEF Inv
<1> USE DEF RaisePriority, Fail, lists, parser, locals, system, Labels, Reading, Removing, Ending
<1>2. Types'
  BY DEF Types
<1>3. Quiet
  BY Zenon DEF Quiet, First
<1>4. /\ Lists' /\ mem' = mem
      /\ Next_' = Next_ /\ ModFlow' = ModFlow /\ Row' = Row /\ Done' = Done /\ Kept' = Kept
  BY <1>3, QuietLists, Zenon
<1>5. Places'
  BY <1>4, Zenon DEF Places
<1>6. Data'
  BY <1>4, Zenon DEF Data
<1>7. Scan'
  BY <1>4, Zenon DEF Scan
<1>8. Sockets'
  <2>1. Half' = {} /\ Half = {}
    BY <1>4, Zenon DEF Half
  <2> QED BY <1>4, <2>1, ZenonT(60) DEF Sockets
<1>9. Freed'
  BY <1>4, Zenon DEF Freed
<1> QED BY <1>2, <1>4, <1>5, <1>6, <1>7, <1>8, <1>9, Zenon DEF Inv

\* main restores its priority.
LEMMA RestorePriorityStep ==
    ASSUME Inv, RestorePriority PROVE Inv'
<1> SUFFICES ASSUME Types, Lists, Places, Data, Scan, Sockets, Freed PROVE Inv'
  BY Zenon DEF Inv
<1> USE DEF RestorePriority, Fail, lists, parser, locals, system, Labels, Reading, Removing, Ending
<1>2. Types'
  BY DEF Types
<1>3. Quiet
  BY Zenon DEF Quiet, First
<1>4. /\ Lists' /\ mem' = mem
      /\ Next_' = Next_ /\ ModFlow' = ModFlow /\ Row' = Row /\ Done' = Done /\ Kept' = Kept
  BY <1>3, QuietLists, Zenon
<1>5. Places'
  BY <1>4, Zenon DEF Places
<1>6. Data'
  BY <1>4, Zenon DEF Data
<1>7. Scan'
  BY <1>4, Zenon DEF Scan
<1>8. Sockets'
  <2>1. Half' = {} /\ Half = {}
    BY <1>4, Zenon DEF Half
  <2> QED BY <1>4, <2>1, ZenonT(60) DEF Sockets
<1>9. Freed'
  BY <1>4 DEF Freed, Types
<1> QED BY <1>2, <1>4, <1>5, <1>6, <1>7, <1>8, <1>9, Zenon DEF Inv

\* find_next begins a scan.
LEMMA find_nextStep ==
    ASSUME Inv, find_next PROVE Inv'
<1> SUFFICES ASSUME Types, Lists, Places, Data, Scan, Sockets, Freed PROVE Inv'
  BY Zenon DEF Inv
<1> USE DEF find_next, lists, parser, locals, system, Labels, Reading, Removing, Ending
<1>2. Types'
  BY DEF Types, Addresses
<1>3. Quiet
  BY Zenon DEF Quiet, First
<1>4. /\ Lists' /\ mem' = mem
      /\ Next_' = Next_ /\ ModFlow' = ModFlow /\ Row' = Row /\ Done' = Done /\ Kept' = Kept
  BY <1>3, QuietLists, Zenon
<1>5. Places'
  BY <1>4, Zenon DEF Places
<1>6. Data'
  BY <1>4, Zenon DEF Data
<1>7. Scan'
  <2>1. Ahead' = Row /\ Passed' = {} /\ Position' = head
    BY <1>4, Zenon DEF Ahead, Position, Passed, Row, First
  <2> QED BY <1>4, <2>1, Zenon DEF Scan
<1>8. Sockets'
  <2>1. Half' = {} /\ Half = {}
    BY <1>4, Zenon DEF Half
  <2> QED BY <1>4, <2>1, ZenonT(60) DEF Sockets
<1>9. Freed'
  BY <1>4, Zenon DEF Freed
<1> QED BY <1>2, <1>4, <1>5, <1>6, <1>7, <1>8, <1>9, Zenon DEF Inv

\* find_next looks at a flow that is not over.
LEMMA ScanFlowStep ==
    ASSUME Inv, ScanFlow PROVE Inv'
<1> SUFFICES ASSUME Types, Lists, Places, Data, Scan, Sockets, Freed PROVE Inv'
  BY Zenon DEF Inv
<1> USE DEF ScanFlow, lists, parser, locals, system, Labels, Reading, Removing, Ending
<1>2. Types'
  <2>1. flow \in Blocks /\ mem[flow].next \in Addresses
    BY Fields, Zenon DEF Types, Addresses
  <2> QED BY <2>1 DEF Types
<1>3. Quiet
  BY Zenon DEF Quiet, First
<1>4. /\ Lists' /\ mem' = mem
      /\ Next_' = Next_ /\ ModFlow' = ModFlow /\ Row' = Row /\ Done' = Done /\ Kept' = Kept
  BY <1>3, QuietLists, Zenon
<1>5. Places'
  BY <1>4, Zenon DEF Places
<1>6. Data'
  BY <1>4, Zenon DEF Data
<1>7. Scan'
  <2>1. flow \in Row
    BY Shape, WalkHas, Zenon DEF Scan, Ahead, Position, Leads
  <2>2. Ahead = Walk(flow, Next_) /\ Ahead' = Ahead \ {flow} /\ flow \in Ahead
    BY <1>4, <2>1, Rest, Zenon DEF Ahead, Position
  <2>3. Passed' = Passed \cup {flow}
    BY <1>4, <2>1, <2>2, Zenon DEF Passed
  <2>4. \A b \in Row : mem[b].next_tx \in Nat
    BY Fields, Shape, Zenon
  <2>5. Position' = mem[flow].next /\ Passed \subseteq Row /\ flow \notin Passed
    BY <2>2, Zenon DEF Position, Passed
  <2>6. /\ Ahead \subseteq Row
        /\ target = NULL <=> Passed = {}
        /\ target # NULL => target \in Passed /\ mem[target].next_tx <= mem[target].flow_stop
        /\ \A b \in Passed : mem[target].next_tx <= mem[b].next_tx
    BY Zenon DEF Scan
  <2>7. mem[flow].next_tx <= mem[flow].flow_stop
    BY <2>1, Fields, Shape DEF Expired
  <2>8. target' \in Passed' /\ mem[target'].next_tx <= mem[target'].flow_stop
    BY <2>3, <2>6, <2>7, Zenon DEF Sooner
  <2>9. \A b \in Passed' : mem[target'].next_tx <= mem[b].next_tx
    BY <2>1, <2>3, <2>4, <2>5, <2>6 DEF Sooner
  <2>10. target' # NULL /\ prev' \in Passed' /\ prev' # NULL
    BY <2>1, <2>3, <2>5, <2>8, NoBlock, Shape, Zenon
  <2> QED BY <1>4, <2>2, <2>5, <2>6, <2>8, <2>9, <2>10, Zenon DEF Scan
<1>8. Sockets'
  <2>1. Half' = {} /\ Half = {}
    BY <1>4, Zenon DEF Half
  <2> QED BY <1>4, <2>1, ZenonT(60) DEF Sockets
<1>9. Freed'
  BY <1>4, Zenon DEF Freed
<1> QED BY <1>2, <1>4, <1>5, <1>6, <1>7, <1>8, <1>9, Zenon DEF Inv

\* find_next meets a block that is over.
LEMMA ScanExpiredStep ==
    ASSUME Inv, ScanExpired PROVE Inv'
<1> SUFFICES ASSUME Types, Lists, Places, Data, Scan, Sockets, Freed PROVE Inv'
  BY Zenon DEF Inv
<1> USE DEF ScanExpired, lists, parser, locals, system, Labels, Reading, Removing, Ending
<1>2. Types'
  BY Zenon DEF Types
<1>3. Quiet
  BY Zenon DEF Quiet, First
<1>4. /\ Lists' /\ mem' = mem
      /\ Next_' = Next_ /\ ModFlow' = ModFlow /\ Row' = Row /\ Done' = Done /\ Kept' = Kept
  BY <1>3, QuietLists, Zenon
<1>5. Places'
  <2>1. flow \in Row
    BY Shape, WalkHas, Zenon DEF Scan, Ahead, Position, Leads
  <2> QED BY <1>4, <2>1, Zenon DEF Places
<1>6. Data'
  BY <1>4, Zenon DEF Data
<1>7. Scan'
  BY <1>4, Zenon DEF Scan, Passed, Ahead, Position
<1>8. Sockets'
  <2>1. Half' = {} /\ Half = {}
    BY <1>4, Zenon DEF Half
  <2> QED BY <1>4, <2>1, ZenonT(60) DEF Sockets
<1>9. Freed'
  BY <1>4, Zenon DEF Freed
<1> QED BY <1>2, <1>4, <1>5, <1>6, <1>7, <1>8, <1>9, Zenon DEF Inv

\* find_next has seen all flows.
LEMMA FoundNextStep ==
    ASSUME Inv, FoundNext PROVE Inv'
<1> SUFFICES ASSUME Types, Lists, Places, Data, Scan, Sockets, Freed PROVE Inv'
  BY Zenon DEF Inv
<1> USE DEF FoundNext, lists, parser, locals, system, Labels, Reading, Removing, Ending
<1>2. Types'
  BY Zenon DEF Types
<1>3. Quiet
  BY Zenon DEF Quiet, First
<1>4. /\ Lists' /\ mem' = mem
      /\ Next_' = Next_ /\ ModFlow' = ModFlow /\ Row' = Row /\ Done' = Done /\ Kept' = Kept
  BY <1>3, QuietLists, Zenon
<1>5. Places'
  BY <1>4, Zenon DEF Places
<1>6. Data'
  BY <1>4, Zenon DEF Data
<1>7. Scan'
  <2>1. pc' = "wait" => Ahead = {} /\ Passed = Row
    BY WalkEmpty, Zenon DEF Ahead, Position, Passed
  <2> QED BY <1>4, <2>1, Zenon DEF Scan
<1>8. Sockets'
  <2>1. Half' = {} /\ Half = {}
    BY <1>4, Zenon DEF Half
  <2> QED BY <1>4, <2>1, ZenonT(60) DEF Sockets
<1>9. Freed'
  BY <1>4, Zenon DEF Freed
<1> QED BY <1>2, <1>4, <1>5, <1>6, <1>7, <1>8, <1>9, Zenon DEF Inv

\* clean_up closes the socket of the first flow.
LEMMA CloseFirstStep ==
    ASSUME Inv, CloseFirst PROVE Inv'
<1> SUFFICES ASSUME Types, Lists, Places, Data, Scan, Sockets, Freed PROVE Inv'
  BY Zenon DEF Inv
<1> USE DEF CloseFirst, Close, lists, parser, locals, system, Labels, Reading, Removing, Ending
<1>2. Types'
  BY DEF Types
<1>3. Quiet
  BY Zenon DEF Quiet, First
<1>4. /\ Lists' /\ mem' = mem
      /\ Next_' = Next_ /\ ModFlow' = ModFlow /\ Row' = Row /\ Done' = Done /\ Kept' = Kept
  BY <1>3, QuietLists, Zenon
<1>5. Places'
  BY <1>4, Zenon DEF Places
<1>6. Data'
  BY <1>4, Zenon DEF Data
<1>7. Scan'
  BY <1>4, Zenon DEF Scan
<1>8. Sockets'
  <2>1. /\ head \in Row /\ Row \subseteq Kept /\ Row \in SUBSET Blocks
        /\ \A b \in Row : mem[b].flow_id \in FlowIds
    <3>1. First = head /\ First # NULL
      BY Zenon DEF First
    <3> QED BY <3>1, Shape, InUse, Zenon
  <2>2. closes \in [FlowIds -> Nat] /\ open \subseteq FlowIds
    BY Zenon DEF Types
  <2>3. \A b, c \in Row : mem[b].flow_id = mem[c].flow_id => b = c
    BY Zenon DEF Lists
  <2>4. CASE ~mem[head].send_sock
    <3>1. open' = open /\ closes' = closes /\ signals' = signals /\ Half' = {} /\ Half = {}
      BY <1>4, <2>4, Zenon DEF Half
    <3> QED BY <1>4, <3>1, ZenonT(60) DEF Sockets
  <2>5. CASE mem[head].send_sock
    <3> DEFINE id == mem[head].flow_id
    <3>1. /\ open' = open \ {id} /\ pc' = "cu_zero" /\ signals' = signals
          /\ closes' = [closes EXCEPT ![id] = @ + 1] /\ Half = {} /\ id \in FlowIds
      BY <1>4, <2>1, <2>5, Zenon DEF Half
    <3>5. Half' = {id}
      BY <1>4, <3>1, Zenon DEF Half
    <3>2. signals = 0 => id \in open /\ closes[id] = 0
      BY <2>1, <2>5, <3>1, Zenon DEF Sockets
    <3>3. signals = 0 => \A f \in FlowIds : closes'[f] <= 1 /\ (f \in open' => closes'[f] = 0)
      BY <2>1, <2>2, <3>1, <3>2 DEF Sockets
    <3>4. signals = 0 =>
             open' = {mem[b].flow_id : b \in {c \in Row : mem[c].send_sock}} \ {id}
      BY <3>1, Zenon DEF Sockets
    <3> QED BY <1>4, <3>1, <3>3, <3>4, <3>5 DEF Sockets
  <2> QED BY <2>4, <2>5, Zenon
<1>9. Freed'
  BY <1>4, Zenon DEF Freed
<1> QED BY <1>2, <1>4, <1>5, <1>6, <1>7, <1>8, <1>9, Zenon DEF Inv

\* clean_up has emptied the active list.
LEMMA ActiveClearedStep ==
    ASSUME Inv, ActiveCleared PROVE Inv'
<1> SUFFICES ASSUME Types, Lists, Places, Data, Scan, Sockets, Freed PROVE Inv'
  BY Zenon DEF Inv
<1> USE DEF ActiveCleared, lists, parser, locals, system, Labels, Reading, Removing, Ending
<1>2. Types'
  BY Zenon DEF Types
<1>3. Quiet
  BY Zenon DEF Quiet, First
<1>4. /\ Lists' /\ mem' = mem
      /\ Next_' = Next_ /\ ModFlow' = ModFlow /\ Row' = Row /\ Done' = Done /\ Kept' = Kept
  BY <1>3, QuietLists, Zenon
<1>5. Places'
  BY <1>4, Zenon DEF Places
<1>6. Data'
  BY <1>4, Zenon DEF Data
<1>7. Scan'
  BY <1>4, Zenon DEF Scan
<1>8. Sockets'
  <2>1. Half' = {} /\ Half = {}
    BY <1>4, Zenon DEF Half
  <2> QED BY <1>4, <2>1, ZenonT(60) DEF Sockets
<1>9. Freed'
  BY <1>4, Zenon DEF Freed
<1> QED BY <1>2, <1>4, <1>5, <1>6, <1>7, <1>8, <1>9, Zenon DEF Inv

\* clean_up frees the buffer.
LEMMA FreeBufferStep ==
    ASSUME Inv, FreeBuffer PROVE Inv'
<1> SUFFICES ASSUME Types, Lists, Places, Data, Scan, Sockets, Freed PROVE Inv'
  BY Zenon DEF Inv
<1> USE DEF FreeBuffer, lists, parser, locals, system, Labels, Reading, Removing, Ending
<1>2. Types'
  BY DEF Types
<1>3. Quiet
  BY NoBlock, Shape DEF Quiet, First, Types
<1>4. /\ Lists' /\ mem' = mem
      /\ Next_' = Next_ /\ ModFlow' = ModFlow /\ Row' = Row /\ Done' = Done /\ Kept' = Kept
  BY <1>3, QuietLists, Zenon
<1>5. Places'
  BY <1>4, Zenon DEF Places
<1>6. Data'
  BY <1>4, Zenon DEF Data
<1>7. Scan'
  BY <1>4, Zenon DEF Scan
<1>8. Sockets'
  <2>1. Half' = {} /\ Half = {}
    BY <1>4, Zenon DEF Half
  <2> QED BY <1>4, <2>1, ZenonT(60) DEF Sockets
<1>9. Freed'
  <2>1. frees'[NULL] = IF buffer THEN frees[NULL] + 1 ELSE frees[NULL]
    BY Zenon DEF Types, Addresses
  <2>2. \A b \in Blocks : frees'[b] = frees[b]
    BY NoBlock DEF Types
  <2> QED BY <1>4, <2>1, <2>2 DEF Freed
<1> QED BY <1>2, <1>4, <1>5, <1>6, <1>7, <1>8, <1>9, Zenon DEF Inv

\* main returns.
LEMMA ExitStep ==
    ASSUME Inv, Exit PROVE Inv'
<1> SUFFICES ASSUME Types, Lists, Places, Data, Scan, Sockets, Freed PROVE Inv'
  BY Zenon DEF Inv
<1> USE DEF Exit, lists, parser, locals, system, Labels, Reading, Removing, Ending
<1>2. Types'
  BY Zenon DEF Types
<1>3. Quiet
  BY Zenon DEF Quiet, First
<1>4. /\ Lists' /\ mem' = mem
      /\ Next_' = Next_ /\ ModFlow' = ModFlow /\ Row' = Row /\ Done' = Done /\ Kept' = Kept
  BY <1>3, QuietLists, Zenon
<1>5. Places'
  BY <1>4, Zenon DEF Places
<1>6. Data'
  BY <1>4, Zenon DEF Data
<1>7. Scan'
  BY <1>4, Zenon DEF Scan
<1>8. Sockets'
  <2>1. Half' = {} /\ Half = {}
    BY <1>4, Zenon DEF Half
  <2> QED BY <1>4, <2>1, ZenonT(60) DEF Sockets
<1>9. Freed'
  BY <1>4, Zenon DEF Freed
<1> QED BY <1>2, <1>4, <1>5, <1>6, <1>7, <1>8, <1>9, Zenon DEF Inv

\* Time passes.
LEMMA TickStep ==
    ASSUME Inv, Tick PROVE Inv'
<1> SUFFICES ASSUME Types, Lists, Places, Data, Scan, Sockets, Freed PROVE Inv'
  BY Zenon DEF Inv
<1> USE DEF Tick, lists, parser, locals, system, Labels, Reading, Removing, Ending
<1>1. now \in Nat /\ now' \in Nat /\ \A n \in Nat : now >= n => now' >= n
  BY DEF Types
<1>2. Types'
  BY <1>1, Zenon DEF Types
<1>3. Quiet
  BY Zenon DEF Quiet, First
<1>4. /\ Lists' /\ mem' = mem
      /\ Next_' = Next_ /\ ModFlow' = ModFlow /\ Row' = Row /\ Done' = Done /\ Kept' = Kept
  BY <1>3, QuietLists, Zenon
<1>5. Places'
  BY <1>4, Zenon DEF Places
<1>6. Data'
  <2>1. tester_start \in Nat
    BY Zenon DEF Types
  <2> QED BY <1>1, <1>4, <2>1, Zenon DEF Data
<1>7. Scan'
  BY <1>4, Zenon DEF Scan
<1>8. Sockets'
  <2>1. Half' = {} /\ Half = {}
    BY <1>4, Zenon DEF Half
  <2> QED BY <1>4, <2>1, ZenonT(60) DEF Sockets
<1>9. Freed'
  BY <1>4, Zenon DEF Freed
<1> QED BY <1>2, <1>4, <1>5, <1>6, <1>7, <1>8, <1>9, Zenon DEF Inv

\* remove_flow zeroes the socket it has closed.
LEMMA ClearSocketStep ==
    ASSUME Inv, ClearSocket PROVE Inv'
<1> SUFFICES ASSUME Types, Lists, Places, Data, Scan, Sockets, Freed PROVE Inv'
  BY Zenon DEF Inv
<1> USE DEF lists, parser, locals, system, Labels, Reading, Removing, Ending
<1>1. /\ pc = "rm_zero" /\ pc' = "rm_unlink"
      /\ UNCHANGED <<head, done, parser, locals, system, now, failures, signals, sent>>
  BY Zenon DEF ClearSocket
<1>2. flow \in Row /\ flow \in Kept /\ flow \in Blocks /\ mem[flow].flow_id \in FlowIds
  <2>1. flow \in Row
    BY <1>1, Zenon DEF Places
  <2>2. flow \in Kept /\ flow \in Blocks
    BY <2>1, Shape, Zenon
  <2> QED BY <2>1, <2>2, InUse, NoBlock, Zenon
<1>3. /\ mem' \in [Blocks -> Structures]
      /\ \A b \in Blocks : Alike(mem'[b], mem[b])
      /\ \A b \in Blocks \ {flow} : mem'[b] = mem[b]
      /\ mem'[flow].send_sock = FALSE
  BY <1>2, SocketSet, Zenon DEF ClearSocket
<1>4. Types'
  BY <1>1, <1>3, Zenon DEF Types
<1>5. Steady
  BY <1>1, <1>2, <1>3, NoBlock, Zenon DEF Steady, First, Alike
<1>6. /\ Lists'
      /\ Next_' = Next_ /\ ModFlow' = ModFlow /\ Row' = Row /\ Done' = Done /\ Kept' = Kept
  BY <1>5, SteadyLists, Zenon
<1>7. /\ Row \in SUBSET Blocks /\ Kept \in SUBSET Blocks /\ Row \subseteq Kept
      /\ \A b \in Kept : mem[b].mod_flow # NULL => mem[b].mod_flow \in Kept
  BY Shape, Zenon
<1>8. Places'
  <2>1. \A b \in Kept : mem'[b].next = mem[b].next /\ mem'[b].mod_flow = mem[b].mod_flow
    BY <1>3, <1>7, Zenon DEF Alike
  <2>2. mem'[flow].mod_flow = NULL
    BY <1>1, <1>2, <2>1, Zenon DEF Places
  <2> QED BY <1>1, <1>2, <1>3, <1>6, <2>1, <2>2, Zenon DEF Places
<1>9. Data'
  <2>1. \A b \in Kept : SameTimes(mem'[b], mem[b])
    BY <1>3, <1>7, Zenon DEF Alike, SameTimes
  <2> QED BY <1>1, <1>6, <2>1, DataSame, Zenon
<1>10. Scan'
  <2>1. prev # NULL => prev \in Blocks
    BY Shape, Zenon DEF Addresses
  <2>2. Position' = Position /\ Ahead' = Ahead /\ Passed' = Passed /\ Passed \subseteq Blocks
    BY <1>1, <1>6, <1>7, Zenon DEF Position, Ahead, Passed
  <2>3. target # NULL => target \in Blocks
    BY Shape, Zenon DEF Addresses
  <2> QED BY <1>1, <1>3, <1>6, <2>1, <2>2, <2>3, Zenon DEF Scan, Alike
<1>11. Sockets'
  <2>1. signals = 0 =>
           open' = {mem'[b].flow_id : b \in {c \in Row : mem'[c].send_sock}}
    <3>1. Half = {mem[flow].flow_id}
      BY <1>1, <1>2, Zenon DEF Half
    <3>2. mem' = [mem EXCEPT ![flow].send_sock = FALSE]
      BY Zenon DEF ClearSocket
    <3>3. {mem'[b].flow_id : b \in {c \in Row : mem'[c].send_sock}} =
             {mem[b].flow_id : b \in {c \in Row : mem[c].send_sock}} \ {mem[flow].flow_id}
      BY <1>2, <3>2, SocketsOff, Zenon
    <3> QED BY <1>1, <3>1, <3>3, Zenon DEF Sockets
  <2>2. Half' = {} /\ mem[flow].mod_flow = NULL
    BY <1>1, Zenon DEF Half, Places
  <2>3. /\ \A b \in Kept \ Row : mem'[b] = mem[b]
        /\ \A b \in Row : mem'[b].send_sock \/ b = flow
        /\ \A b \in Row : mem'[b].sequence_nmbr = sent'[mem'[b].flow_id]
        /\ mem'[flow].mod_flow = mem[flow].mod_flow
    BY <1>1, <1>2, <1>3, <1>7, ZenonT(60) DEF Sockets, Alike
  <2> QED BY <1>1, <1>6, <2>1, <2>2, <2>3, Zenon DEF Sockets
<1>12. Freed'
  BY <1>1, <1>3, <1>6, Zenon DEF Freed, Alike
<1> QED BY <1>4, <1>6, <1>8, <1>9, <1>10, <1>11, <1>12, Zenon DEF Inv

\* clean_up zeroes the socket it has closed.
LEMMA ZeroFirstStep ==
    ASSUME Inv, ZeroFirst PROVE Inv'
<1> SUFFICES ASSUME Types, Lists, Places, Data, Scan, Sockets, Freed PROVE Inv'
  BY Zenon DEF Inv
<1> USE DEF lists, parser, locals, system, Labels, Reading, Removing, Ending
<1>1. /\ pc = "cu_zero" /\ pc' = "cu_unlink"
      /\ UNCHANGED <<head, done, parser, locals, system, now, failures, signals, sent>>
  BY Zenon DEF ZeroFirst
<1>2. head \in Row /\ head \in Kept /\ head \in Blocks /\ mem[head].flow_id \in FlowIds
  <2>1. First = head /\ First # NULL
    BY <1>1, Zenon DEF Places, First
  <2>2. head \in Row
    BY <2>1, Shape, Zenon
  <2>3. head \in Kept /\ head \in Blocks
    BY <2>2, Shape, Zenon
  <2> QED BY <2>2, <2>3, InUse, NoBlock, Zenon
<1>3. /\ mem' \in [Blocks -> Structures]
      /\ \A b \in Blocks : Alike(mem'[b], mem[b])
      /\ \A b \in Blocks \ {head} : mem'[b] = mem[b]
      /\ mem'[head].send_sock = FALSE
  BY <1>2, SocketSet, Zenon DEF ZeroFirst
<1>4. Types'
  BY <1>1, <1>3, Zenon DEF Types
<1>5. Steady
  BY <1>1, <1>2, <1>3, NoBlock, Zenon DEF Steady, First, Alike
<1>6. /\ Lists'
      /\ Next_' = Next_ /\ ModFlow' = ModFlow /\ Row' = Row /\ Done' = Done /\ Kept' = Kept
  BY <1>5, SteadyLists, Zenon
<1>7. /\ Row \in SUBSET Blocks /\ Kept \in SUBSET Blocks /\ Row \subseteq Kept
      /\ \A b \in Kept : mem[b].mod_flow # NULL => mem[b].mod_flow \in Kept
  BY Shape, Zenon
<1>8. Places'
  BY <1>1, <1>2, <1>3, <1>6, <1>7, Zenon DEF Places, Alike
<1>9. Data'
  <2>1. \A b \in Kept : SameTimes(mem'[b], mem[b])
    BY <1>3, <1>7, Zenon DEF Alike, SameTimes
  <2> QED BY <1>1, <1>6, <2>1, DataSame, Zenon
<1>10. Scan'
  BY <1>1, Zenon DEF Scan
<1>11. Sockets'
  <2>1. signals = 0 =>
           open' = {mem'[b].flow_id : b \in {c \in Row : mem'[c].send_sock}}
    <3>1. Half = {mem[head].flow_id}
      BY <1>1, <1>2, Zenon DEF Half
    <3>2. mem' = [mem EXCEPT ![head].send_sock = FALSE]
      BY Zenon DEF ZeroFirst
    <3>3. {mem'[b].flow_id : b \in {c \in Row : mem'[c].send_sock}} =
             {mem[b].flow_id : b \in {c \in Row : mem[c].send_sock}} \ {mem[head].flow_id}
      BY <1>2, <3>2, SocketsOff, Zenon
    <3> QED BY <1>1, <3>1, <3>3, Zenon DEF Sockets
  <2>2. Half' = {}
    BY <1>1, Zenon DEF Half
  <2>3. \A b \in Kept \ Row : mem'[b] = mem[b]
    BY <1>2, <1>3, <1>7, Zenon
  <2> QED BY <1>1, <1>6, <2>1, <2>2, <2>3, Zenon DEF Sockets
<1>12. Freed'
  BY <1>1, <1>3, <1>6, Zenon DEF Freed, Alike
<1> QED BY <1>4, <1>6, <1>8, <1>9, <1>10, <1>11, <1>12, Zenon DEF Inv

\* open_sockets opens the socket of the next flow, or fails.
LEMMA open_socketsStep ==
    ASSUME Inv, open_sockets PROVE Inv'
<1> SUFFICES ASSUME Types, Lists, Places, Data, Scan, Sockets, Freed PROVE Inv'
  BY Zenon DEF Inv
<1> USE DEF lists, parser, locals, system, Labels, Reading, Removing, Ending
<1>1. /\ pc = "socket" /\ pc' = pc /\ flow # NULL /\ flow' = mem[flow].next
      /\ failures' = failures \/ failures' = failures + 1
      /\ UNCHANGED <<head, done, parser, prev, target, checked, tmp1, buffer, sched, closes,
                     frees, now, signals, sent>>
  BY Zenon DEF open_sockets, Fail
<1>2. /\ flow \in Row /\ flow \in Kept /\ flow \in Blocks /\ mem[flow].flow_id \in FlowIds
      /\ mem[flow].next \in Addresses /\ Ahead = Walk(flow, Next_)
  <2>1. flow \in Row /\ Ahead = Walk(flow, Next_)
    BY <1>1, Shape, WalkHas, Zenon DEF Scan, Ahead, Position, Leads
  <2> QED BY <2>1, Shape, InUse, Fields, Zenon
<1>3. PICK v \in BOOLEAN :
         /\ mem' = [mem EXCEPT ![flow].send_sock = v]
         /\ \/ v = TRUE /\ open' = open \cup {mem[flow].flow_id}
            \/ v = mem[flow].send_sock /\ open' = open /\ failures' > 0
         /\ v = TRUE \/ failures' > 0
  <2>1. CASE mem' = [mem EXCEPT ![flow].send_sock = TRUE] /\ open' = open \cup {mem[flow].flow_id}
    BY <2>1, Zenon
  <2>2. CASE mem' = mem /\ open' = open /\ failures' = failures + 1
    <3>1. mem[flow].send_sock \in BOOLEAN
      BY <1>2, Fields, Zenon
    <3>2. mem' = [mem EXCEPT ![flow].send_sock = mem[flow].send_sock]
      <4>1. mem \in [Blocks -> Structures] /\ mem[flow] \in Structures
        BY <1>2, Zenon DEF Types
      <4>2. mem[flow] = [mem[flow] EXCEPT !.send_sock = mem[flow].send_sock]
        BY <4>1, Zenon DEF Structures
      <4> QED BY <1>2, <2>2, <4>1, <4>2, Zenon
    <3>3. failures' > 0
      BY <2>2 DEF Types
    <3> QED BY <2>2, <3>1, <3>2, <3>3, Zenon
  <2> QED BY <2>1, <2>2, Zenon DEF open_sockets, Fail
<1>4. /\ mem' \in [Blocks -> Structures]
      /\ \A b \in Blocks : Alike(mem'[b], mem[b])
      /\ \A b \in Blocks \ {flow} : mem'[b] = mem[b]
      /\ mem'[flow].send_sock = v
  BY <1>2, <1>3, SocketSet, Zenon
<1>5. Types'
  <2>1. failures' \in Nat
    BY <1>1 DEF Types
  <2>2. open' \subseteq FlowIds
    BY <1>2, <1>3, Zenon DEF Types
  <2> QED BY <1>1, <1>2, <1>4, <2>1, <2>2, Zenon DEF Types
<1>6. Steady
  BY <1>1, <1>2, <1>4, NoBlock, Zenon DEF Steady, First, Alike
<1>7. /\ Lists'
      /\ Next_' = Next_ /\ ModFlow' = ModFlow /\ Row' = Row /\ Done' = Done /\ Kept' = Kept
  BY <1>6, SteadyLists, Zenon
<1>8. /\ Row \in SUBSET Blocks /\ Kept \in SUBSET Blocks /\ Row \subseteq Kept
      /\ \A b \in Kept : mem[b].mod_flow # NULL => mem[b].mod_flow \in Kept
  BY Shape, Zenon
<1>9. Places'
  BY <1>1, <1>2, <1>4, <1>7, <1>8, Zenon DEF Places, Alike
<1>10. Data'
  <2>1. \A b \in Kept : SameTimes(mem'[b], mem[b])
    BY <1>4, <1>8, Zenon DEF Alike, SameTimes
  <2> QED BY <1>1, <1>7, <2>1, DataSame, Zenon
<1>11. Ahead' = Ahead \ {flow} /\ Passed' = Passed \cup {flow}
  <2>1. Ahead' = Walk(mem[flow].next, Next_) /\ flow \in Ahead
    BY <1>1, <1>2, <1>7, Rest, Zenon DEF Ahead, Position
  <2> QED BY <1>1, <1>2, <1>7, <2>1, Rest, Zenon DEF Passed
<1>12. Scan'
  BY <1>1, <1>7, <1>11, Zenon DEF Scan
<1>13. Sockets'
  <2>1. signals = 0 =>
           open' = {mem'[b].flow_id : b \in {c \in Row : mem'[c].send_sock}}
    <3> DEFINE O(m) == {m[b].flow_id : b \in {c \in Row : m[c].send_sock}}
    <3>1. signals = 0 => open = O(mem)
      BY <1>1, Zenon DEF Sockets, Half
    <3>2. /\ v => O(mem') = O(mem) \cup {mem[flow].flow_id}
          /\ ~v => O(mem') = O(mem) \ {mem[flow].flow_id}
      BY <1>2, <1>3, SocketsOff, Zenon
    <3>3. /\ mem[flow].send_sock => mem[flow].flow_id \in O(mem)
          /\ ~mem[flow].send_sock => mem[flow].flow_id \notin O(mem)
      BY <1>2, ZenonT(60) DEF Lists
    <3> HIDE DEF O
    <3>4. signals = 0 => open' = O(mem')
      BY <1>3, <3>1, <3>2, <3>3, Zenon
    <3> QED BY <3>4, Zenon DEF O
  <2>2. \A f \in FlowIds : closes'[f] = 0
    BY <1>1, Zenon DEF Sockets
  <2>3. \A b \in Passed' : mem'[b].send_sock \/ failures' > 0
    <3>1. failures > 0 => failures' > 0
      BY <1>1 DEF Types
    <3>2. Passed \subseteq Blocks
      BY <1>8, Zenon DEF Passed
    <3> QED BY <1>1, <1>2, <1>3, <1>4, <1>11, <3>1, <3>2, Zenon DEF Sockets
  <2>4. \A b \in Kept \ Row : ~mem'[b].send_sock \/ signals # 0
    BY <1>1, <1>2, <1>4, <1>8, Zenon DEF Sockets
  <2>5. \A b \in Row : mem'[b].sequence_nmbr = sent[mem'[b].flow_id]
    BY <1>1, <1>4, <1>8, Zenon DEF Sockets, Alike
  <2> QED BY <1>1, <1>7, <2>1, <2>2, <2>3, <2>4, <2>5, Zenon DEF Sockets, Half
<1>14. Freed'
  <2>1. failures > 0 => failures' > 0
    BY <1>1 DEF Types
  <2> QED BY <1>1, <1>4, <1>7, <2>1, Zenon DEF Freed, Alike
<1> QED BY <1>5, <1>7, <1>9, <1>10, <1>12, <1>13, <1>14, Zenon DEF Inv

\* Two structures that differ in their link to the next flow at most.
Moved(r, s) ==
    /\ r.mod_flow = s.mod_flow /\ r.flow_id = s.flow_id
    /\ r.flow_start = s.flow_start /\ r.flow_stop = s.flow_stop /\ r.next_tx = s.next_tx
    /\ r.traffic = s.traffic /\ r.list_index = s.list_index
    /\ r.sequence_nmbr = s.sequence_nmbr /\ r.send_sock = s.send_sock

\* A block is linked to another one.
Linked(x, v) == mem' = [mem EXCEPT ![x].next = v]

\* A block is linked to another one: the structures.
LEMMA NextSet ==
    ASSUME Types, NEW x \in Blocks, NEW v \in Addresses, Linked(x, v)
    PROVE  /\ mem' \in [Blocks -> Structures]
           /\ \A b \in Blocks : Moved(mem'[b], mem[b])
           /\ \A b \in Blocks \ {x} : mem'[b] = mem[b]
           /\ mem'[x].next = v
           /\ Relinked(Next_, x, v, Next_') /\ ModFlow' = ModFlow
<1>1. mem \in [Blocks -> Structures]
  BY Zenon DEF Types
<1> DEFINE r == [mem[x] EXCEPT !.next = v]
<1>2. mem[x] \in Structures
  BY <1>1, Zenon
<1>3. r \in Structures
  BY <1>2, Zenon DEF Structures
<1>4. r.next = v /\ Moved(r, mem[x])
  BY <1>2, Zenon DEF Structures, Moved
<1>5. mem' = [mem EXCEPT ![x] = r]
  BY Zenon DEF Linked
<1> HIDE DEF r
<1>6. \A b \in Blocks : Moved(mem[b], mem[b])
  BY Zenon DEF Moved
<1>7. /\ mem' \in [Blocks -> Structures] /\ \A b \in Blocks : Moved(mem'[b], mem[b])
      /\ \A b \in Blocks \ {x} : mem'[b] = mem[b]
      /\ mem'[x].next = v
  BY <1>1, <1>3, <1>4, <1>5, <1>6, Zenon
<1>8. ModFlow' = ModFlow
  BY <1>7, Zenon DEF ModFlow, Moved
<1>9. Next_' \in Links /\ \A b \in Blocks : Next_'[b] = mem'[b].next /\ Next_[b] = mem[b].next
  BY <1>7, Zenon DEF Next_, Links, Structures
<1>10. Relinked(Next_, x, v, Next_')
  BY <1>7, <1>9, Zenon DEF Relinked
<1> QED BY <1>7, <1>8, <1>10, Zenon

\* clean_up frees the block it has taken off a list.
LEMMA FreeBlockStep ==
    ASSUME Inv, FreeActive \/ FreeDone PROVE Inv'
<1> SUFFICES ASSUME Types, Lists, Places, Data, Scan, Sockets, Freed PROVE Inv'
  BY Zenon DEF Inv
<1> USE DEF lists, parser, locals, system, Labels, Reading, Removing, Ending
<1>1. /\ \/ pc = "cu_free" /\ pc' = "cu_close"
         \/ pc = "cu_dfree" /\ pc' = "cu_done"
      /\ UNCHANGED <<lists, parser, locals, open, buffer, sched, closes, now, failures, signals,
                     sent>>
  BY Zenon DEF FreeActive, FreeDone
<1>2. tmp1 \in Blocks \ (Kept \cup Done) /\ tmp1 # NULL /\ mem[tmp1].flow_id # NULL
  BY <1>1, NoBlock, Zenon DEF Places, Off
<1>3. /\ Kept \in SUBSET Blocks /\ Done \in SUBSET Blocks
      /\ frees \in [Addresses -> Nat] /\ tmp1 \in Addresses
  BY <1>2, Shape, Zenon DEF Types, Addresses
<1>4. /\ frees' \in [Addresses -> Nat] /\ frees'[tmp1] = frees[tmp1] + 1
      /\ \A b \in Addresses \ {tmp1} : frees'[b] = frees[b]
  BY <1>3 DEF FreeActive, FreeDone
<1>5. Types'
  BY <1>1, <1>4, Zenon DEF Types
<1>6. Quiet
  BY <1>1, <1>2, <1>3, <1>4, Zenon DEF Quiet, First, Addresses
<1>7. /\ Lists' /\ mem' = mem
      /\ Next_' = Next_ /\ ModFlow' = ModFlow /\ Row' = Row /\ Done' = Done /\ Kept' = Kept
  BY <1>6, QuietLists, Zenon
<1>8. Places'
  BY <1>1, <1>7, Zenon DEF Places
<1>9. Data'
  BY <1>1, <1>7, Zenon DEF Data
<1>10. Scan'
  BY <1>1, <1>7, Zenon DEF Scan
<1>11. Sockets'
  <2>1. Half' = {} /\ Half = {}
    BY <1>1, <1>7, Zenon DEF Half
  <2> QED BY <1>1, <1>7, <2>1, ZenonT(60) DEF Sockets
<1>12. Freed'
  <2> SUFFICES ASSUME signals = 0 PROVE Freed'
    BY <1>1, Zenon DEF Freed
  <2>1. frees'[tmp1] = 1
    BY <1>1, <1>4 DEF Freed
  <2>2. \A b \in Blocks : b # tmp1 => frees'[b] = frees[b]
    BY <1>4, Zenon DEF Addresses
  <2>3. frees'[NULL] = frees[NULL]
    BY <1>2, <1>4, Zenon DEF Addresses
  <2> QED BY <1>1, <1>2, <1>7, <2>1, <2>2, <2>3, Zenon DEF Freed
<1> QED BY <1>5, <1>7, <1>8, <1>9, <1>10, <1>11, <1>12, Zenon DEF Inv

\* clean_up takes the first block off the list of the done.
LEMMA UnlinkDoneStep ==
    ASSUME Inv, UnlinkDone PROVE Inv'
<1> SUFFICES ASSUME Types, Lists, Places, Data, Scan, Sockets, Freed PROVE Inv'
  BY Zenon DEF Inv
<1> USE DEF UnlinkDone, lists, parser, locals, system, Labels, Reading, Removing, Ending
<1>2. /\ Next_ \in Links /\ \A b \in Blocks : Next_[b] = mem[b].next
      /\ done \in Done /\ Done \in SUBSET Blocks /\ First = NULL /\ Row = {} /\ Kept = {}
      /\ mem[done].next \in Addresses
  <2>1. First = NULL
    BY Zenon DEF Places, First
  <2> QED BY <2>1, Shape, Fields, Zenon
<1>3. Next_' = Next_ /\ ModFlow' = ModFlow /\ First' = NULL /\ Row' = {} /\ Kept' = {}
  <2>1. First' = NULL
    BY Zenon DEF Places, First
  <2>2. Row' = {}
    BY <2>1, WalkEmpty, Zenon DEF Row
  <2> QED BY <2>1, <2>2, Zenon DEF Next_, ModFlow, Kept
<1>4. Done' = Done \ {done} /\ Simple(done', Next_)
  <2>1. Replaces(mem[done].next, {}, done, Walk(done, Next_), Next_)
    BY <1>2, Zenon DEF Replaces
  <2>2. done \in Blocks /\ Simple(done, Next_)
    BY <1>2, Zenon DEF Lists
  <2>3. Walk(mem[done].next, Next_) = (Walk(done, Next_) \ {done}) \cup {} /\ Simple(mem[done].next, Next_)
    BY <1>2, <2>1, <2>2, SpliceFirst, Zenon
  <2> QED BY <1>3, <2>3, Zenon DEF Done
<1>5. Types'
  BY <1>2, Zenon DEF Types
<1>6. Lists'
  <2>1. Simple(NULL, Next_)
    BY WalkEmpty, Zenon DEF Simple
  <2> QED BY <1>2, <1>3, <1>4, <2>1, Zenon DEF Lists
<1>7. Places'
  BY <1>2, <1>3, <1>4, Zenon DEF Places, Off, Lists
<1>8. Data'
  BY <1>3, Zenon DEF Data
<1>9. Scan'
  BY Zenon DEF Scan
<1>10. Sockets'
  BY <1>2, <1>3, Zenon DEF Sockets, Half
<1>11. Freed'
  BY <1>2, <1>3, <1>4, Zenon DEF Freed, Lists
<1> QED BY <1>5, <1>6, <1>7, <1>8, <1>9, <1>10, <1>11, Zenon DEF Inv

\* remove_flow puts the block on the list of the done.
LEMMA LinkToDoneStep ==
    ASSUME Inv, LinkToDone PROVE Inv'
<1> SUFFICES ASSUME Types, Lists, Places, Data, Scan, Sockets, Freed PROVE Inv'
  BY Zenon DEF Inv
<1> USE DEF lists, parser, locals, system, Labels, Reading, Removing, Ending
<1>2. /\ pc = "rm_link" /\ pc' = "scan" /\ done' = flow
      /\ flow' = Position
      /\ UNCHANGED <<head, parser, prev, target, checked, tmp1, system, now, failures,
                     signals, sent>>
  BY Zenon DEF LinkToDone, Position
<1>3. /\ Next_ \in Links /\ ModFlow \in Links
      /\ \A b \in Blocks : Next_[b] = mem[b].next
      /\ Row \in SUBSET Blocks /\ Kept \in SUBSET Blocks /\ Row \subseteq Kept
      /\ Done \in SUBSET Blocks /\ done \in Addresses /\ First = head /\ head \in Addresses
      /\ \A b \in Kept : mem[b].mod_flow # NULL => mem[b].mod_flow \in Kept
      /\ prev \in Addresses /\ target \in Addresses
  BY <1>2, Shape, Zenon DEF First
<1>4. flow \in Blocks \ (Kept \cup Done) /\ mem[flow].flow_id # NULL /\ frees[flow] = 0
  BY <1>2, Zenon DEF Places, Off
<1>5. /\ mem' \in [Blocks -> Structures]
      /\ \A b \in Blocks : Moved(mem'[b], mem[b])
      /\ \A b \in Blocks \ {flow} : mem'[b] = mem[b]
      /\ Relinked(Next_, flow, done, Next_') /\ ModFlow' = ModFlow
  <2>1. Linked(flow, done)
    BY Zenon DEF Linked, LinkToDone
  <2> QED BY <1>3, <1>4, <2>1, NextSet, Zenon
<1>6. \A b \in Kept : mem'[b] = mem[b]
  BY <1>3, <1>4, <1>5, Zenon
<1>7. Next_' \in Links /\ \A b \in Blocks \ {flow} : Next_'[b] = Next_[b]
  BY <1>5, Zenon DEF Relinked
<1>8. First' = First /\ Row' = Row /\ Kept' = Kept /\ Simple(First', Next_')
  <2>1. First' = First
    BY <1>2, Zenon DEF First
  <2>2. \A b \in Walk(First, Next_) : Next_'[b] = Next_[b]
    BY <1>3, <1>4, <1>7, Zenon DEF Row
  <2>3. Walk(First, Next_') = Walk(First, Next_) /\ Simple(First, Next_')
    BY <1>3, <1>7, <2>2, WalkSame, Zenon DEF Lists
  <2>4. Row' = Row
    BY <2>1, <2>3, Zenon DEF Row
  <2> QED BY <1>5, <2>1, <2>3, <2>4, Zenon DEF Kept
<1>9. Done' = Done \cup {flow} /\ Simple(done', Next_')
  <2>1. Simple(done, Next_) /\ flow \in Blocks \ Walk(done, Next_)
    BY <1>4, Zenon DEF Lists, Done
  <2>2. Walk(flow, Next_') = Walk(done, Next_) \cup {flow} /\ Simple(flow, Next_')
    BY <1>3, <1>5, <2>1, Push, Zenon
  <2> QED BY <1>2, <2>2, Zenon DEF Done
<1>10. Types'
  <2>1. Position \in Addresses
    <3>1. prev # NULL => mem[prev].next \in Addresses
      BY <1>3, Fields, Zenon DEF Addresses
    <3> QED BY <1>2, <1>3, <3>1, Zenon DEF Position
  <2>2. pc' \in Labels /\ flow \in Addresses
    BY <1>2, <1>4, Zenon DEF Addresses
  <2> QED BY <1>2, <1>5, <2>1, <2>2, Zenon DEF Types
<1>11. Lists'
  <2>1. Kept \cap (Done \cup {flow}) = {}
    BY <1>4, Zenon DEF Lists
  <2>2. \A b \in Kept \cup Done \cup {flow} : mem'[b].flow_id # NULL /\ frees'[b] = 0
    <3>1. \A b \in Kept \cup Done : b \in Blocks /\ mem[b].flow_id # NULL /\ frees[b] = 0
      BY <1>3, Zenon DEF Lists
    <3>2. frees' = frees /\ \A b \in Blocks : mem'[b].flow_id = mem[b].flow_id
      BY <1>2, <1>5, Zenon DEF Moved
    <3> QED BY <1>4, <3>1, <3>2, Zenon
  <2>3. \A b \in Blocks : mem'[b].flow_id = NULL => mem'[b] = Zero
    <3>1. \A b \in Blocks \ {flow} : mem'[b].flow_id = NULL => mem'[b] = Zero
      BY <1>5, Zenon DEF Lists
    <3> QED BY <1>4, <1>5, <3>1, Zenon DEF Moved
  <2> QED BY <1>6, <1>8, <1>9, <2>1, <2>2, <2>3, ListsKept, Zenon
<1>12. Places'
  BY <1>2, <1>6, <1>8, Zenon DEF Places
<1>13. Data'
  <2>1. \A b \in Kept : SameTimes(mem'[b], mem[b])
    BY <1>6, Zenon DEF SameTimes
  <2> QED BY <1>2, <1>8, <2>1, DataSame, Zenon
<1>14. Scan'
  <2>1. Position' = Position /\ Position \in Addresses
    <3>1. Position' = flow'
      BY <1>2, Zenon DEF Position
    <3> QED BY <1>2, <1>10, <3>1, Zenon DEF Types
  <2>2. Ahead' = Ahead /\ Passed' = Passed /\ Passed \subseteq Row
    <3>1. \A b \in Walk(Position, Next_) : Next_'[b] = Next_[b]
      BY <1>2, <1>3, <1>4, <1>7, Zenon DEF Scan, Ahead
    <3>2. Walk(Position, Next_') = Walk(Position, Next_)
      BY <1>3, <1>7, <2>1, <3>1, WalkSame, Zenon
    <3> QED BY <1>8, <2>1, <3>2, Zenon DEF Ahead, Passed
  <2>3. prev # NULL => mem'[prev] = mem[prev]
    BY <1>2, <1>3, <1>6, <2>2, Zenon DEF Scan
  <2>4. target # NULL => mem'[target] = mem[target]
    BY <1>2, <1>3, <1>6, <2>2, Zenon DEF Scan
  <2>5. \A b \in Passed : mem'[b] = mem[b] /\ mem'[target] = mem[target]
    BY <1>2, <1>3, <1>6, <2>2, <2>4, Zenon DEF Scan
  <2> QED BY <1>2, <1>8, <2>1, <2>2, <2>3, <2>4, <2>5, Zenon DEF Scan
<1>15. Sockets'
  <2>1. \A b \in Row : mem'[b] = mem[b]
    BY <1>3, <1>6, Zenon
  <2>2. {mem'[b].flow_id : b \in {c \in Row' : mem'[c].send_sock}} =
           {mem[b].flow_id : b \in {c \in Row : mem[c].send_sock}}
    BY <1>8, <2>1, Zenon
  <2> QED BY <1>2, <1>6, <1>8, <2>1, <2>2, Zenon DEF Sockets, Half
<1>16. Freed'
  <2>1. \A b \in Blocks : mem'[b].flow_id = mem[b].flow_id
    BY <1>5, Zenon DEF Moved
  <2> QED BY <1>2, <1>8, <1>9, <2>1, Zenon DEF Freed
<1> QED BY <1>10, <1>11, <1>12, <1>13, <1>14, <1>15, <1>16, Zenon DEF Inv

\* Block x leaves the active list; its next block, if any, takes its place.
LEMMA ListsWithout ==
    ASSUME Types, Lists, NEW x \in Row, NEW R, R = {mem[x].mod_flow} \ {NULL},
           \A b \in Blocks : Moved(mem'[b], mem[b]),
           \A b \in Blocks : mem'[b] = mem[b] \/ mem[b].flow_id # NULL,
           frees' = frees, Done' = Done, Row' = (Row \ {x}) \cup R, Kept' = Kept \ {x},
           Simple(First', Next_'), Simple(done', Next_'),
           \A b \in Kept \ {x} : mem[b].mod_flow # NULL /\ mem'[mem[b].mod_flow].next # NULL =>
              b \in Row /\ mem'[mem[b].mod_flow].next = mem'[b].next
    PROVE  Lists'
<1>1. /\ Row \in SUBSET Blocks /\ Kept \in SUBSET Blocks /\ Row \subseteq Kept
      /\ Done \in SUBSET Blocks
      /\ \A b \in Kept : mem[b].mod_flow # NULL => mem[b].mod_flow \in Kept
      /\ x \in Blocks /\ x \in Kept
  BY Shape, Zenon
<1>2. \A b \in Blocks : mem'[b].mod_flow = mem[b].mod_flow /\ mem'[b].flow_id = mem[b].flow_id
  BY Zenon DEF Moved
<1>3. Kept' \cap Done' = {}
  BY Zenon DEF Lists
<1>4. \A b, c \in Kept : mem[b].mod_flow = mem[c].mod_flow /\ mem[b].mod_flow # NULL => b = c
  BY Zenon DEF Lists
<1>5. \A b \in Kept' : mem'[b].mod_flow \notin Row'
  <2>1. ASSUME NEW b \in Kept' PROVE mem'[b].mod_flow \notin Row'
    <3>1. b \in Kept /\ b # x /\ mem'[b].mod_flow = mem[b].mod_flow
      BY <1>1, <1>2, <2>1, Zenon
    <3>2. mem[b].mod_flow \notin Row
      BY <3>1, Zenon DEF Lists
    <3>3. mem[b].mod_flow \notin R
      BY <1>1, <1>4, <3>1, Zenon
    <3> QED BY <3>1, <3>2, <3>3, Zenon
  <2> QED BY <2>1, Zenon
<1>6. \A b, c \in Kept' : mem'[b].mod_flow = mem'[c].mod_flow /\ mem'[b].mod_flow # NULL => b = c
  <2>1. \A b \in Kept' : b \in Kept /\ mem'[b].mod_flow = mem[b].mod_flow
    BY <1>1, <1>2, Zenon
  <2>2. ASSUME NEW b \in Kept', NEW c \in Kept', mem'[b].mod_flow = mem'[c].mod_flow,
               mem'[b].mod_flow # NULL
        PROVE  b = c
    <3>1. mem[b].mod_flow = mem[c].mod_flow /\ mem[b].mod_flow # NULL
      BY <2>1, <2>2, Zenon
    <3> QED BY <1>4, <2>1, <3>1, Zenon
  <2> QED BY <2>2, Zenon
<1>7. ASSUME NEW b \in Kept', mem'[b].mod_flow # NULL
      PROVE  /\ mem'[mem'[b].mod_flow].flow_id = mem'[b].flow_id
             /\ mem'[mem'[b].mod_flow].next # NULL =>
                   b \in Row' /\ mem'[mem'[b].mod_flow].next = mem'[b].next
  <2>1. b \in Kept \ {x} /\ mem'[b].mod_flow = mem[b].mod_flow /\ mem[b].mod_flow \in Blocks
    BY <1>1, <1>2, <1>7, Zenon
  <2>2. mem[mem[b].mod_flow].flow_id = mem[b].flow_id
    BY <1>7, <2>1, Zenon DEF Lists
  <2>3. /\ mem'[mem[b].mod_flow].flow_id = mem[mem[b].mod_flow].flow_id
        /\ mem'[b].flow_id = mem[b].flow_id
    BY <1>1, <1>2, <2>1, Zenon
  <2>4. mem'[mem[b].mod_flow].next # NULL => b \in Row /\ mem'[mem[b].mod_flow].next = mem'[b].next
    BY <1>7, <2>1, Zenon
  <2> QED BY <2>1, <2>2, <2>3, <2>4, Zenon
<1>8. \A b, c \in Row' : mem'[b].flow_id = mem'[c].flow_id => b = c
  <2>1. \A b \in R : b \in Blocks /\ mem[b].flow_id = mem[x].flow_id
    <3>1. mem[x].mod_flow # NULL =>
             mem[x].mod_flow \in Blocks /\ mem[mem[x].mod_flow].flow_id = mem[x].flow_id
      BY <1>1, Zenon DEF Lists
    <3>2. \A b \in R : b = mem[x].mod_flow /\ mem[x].mod_flow # NULL
      BY Zenon
    <3> QED BY <3>1, <3>2, Zenon
  <2>2. \A b, c \in Row : mem[b].flow_id = mem[c].flow_id => b = c
    BY Zenon DEF Lists
  <2>3. \A b, c \in R : b = c
    BY Zenon
  <2>4. ASSUME NEW b \in Row', NEW c \in Row', mem'[b].flow_id = mem'[c].flow_id PROVE b = c
    <3>1. b \in Blocks /\ c \in Blocks /\ mem[b].flow_id = mem[c].flow_id
      BY <1>1, <1>2, <2>1, <2>4, Zenon
    <3> QED BY <2>1, <2>2, <2>3, <3>1, Zenon
  <2> QED BY <2>4, Zenon
<1>9. \A b \in Kept' \cup Done' : mem'[b].flow_id # NULL /\ frees'[b] = 0
  BY <1>1, <1>2, Zenon DEF Lists
<1>10. \A b \in Blocks : mem'[b].flow_id = NULL => mem'[b] = Zero
  BY <1>2, Zenon DEF Lists
<1> QED BY <1>3, <1>5, <1>6, <1>7, <1>8, <1>9, <1>10, Zenon DEF Lists

\* What remains when block x makes place for its next block.
LEMMA KeptWithout ==
    ASSUME Types, Lists, NEW x \in Row, NEW R, R = {mem[x].mod_flow} \ {NULL}
    PROVE  /\ All((Row \ {x}) \cup R, ModFlow) = Kept \ {x}
           /\ R \subseteq Kept \ Row
<1>1. /\ Row \in SUBSET Blocks /\ Row \subseteq Kept /\ Kept \in SUBSET Blocks
      /\ ModFlow \in Links /\ Kept = All(Row, ModFlow)
      /\ \A b \in Blocks : ModFlow[b] = mem[b].mod_flow
      /\ \A b \in Kept : mem[b].mod_flow # NULL => mem[b].mod_flow \in Kept
  BY Shape, Zenon
<1>2. \A b \in All(Row, ModFlow) : ModFlow[b] \notin Row
  BY <1>1, ZenonT(60) DEF Lists
<1>3. (Row \ {x}) \cup R = (Row \ {x}) \cup ({ModFlow[x]} \ {NULL})
  BY <1>1, Zenon
<1>4. \A F : F = (Row \ {x}) \cup ({ModFlow[x]} \ {NULL}) =>
              All(F, ModFlow) = All(Row, ModFlow) \ {x}
  <2>1. Row \in SUBSET Blocks /\ ModFlow \in Links
    BY <1>1, Zenon
  <2> QED BY <1>2, <2>1, AllWithout
<1>5. R \subseteq Kept \ Row
  BY <1>1, <1>2, Zenon
<1> QED BY <1>1, <1>3, <1>4, <1>5, Zenon

\* clean_up takes the first block off the active list, or makes the next block of its
\* flow the first.
LEMMA UnlinkFirstStep ==
    ASSUME Inv, UnlinkFirst PROVE Inv'
<1> SUFFICES ASSUME Types, Lists, Places, Data, Scan, Sockets, Freed PROVE Inv'
  BY Zenon DEF Inv
<1> USE DEF lists, parser, locals, system, Labels, Reading, Removing, Ending
<1>2. /\ pc = "cu_unlink" /\ head' = Successor(head)
      /\ pc' = IF mem[head].mod_flow # NULL THEN "cu_relink" ELSE "cu_free"
      /\ UNCHANGED <<mem, done, parser, locals, system, now, failures, signals, sent>>
  BY Zenon DEF UnlinkFirst
<1>3. /\ tmp1 = head /\ head # NULL /\ First = head /\ head \in Row /\ head \in Blocks
      /\ Next_ \in Links /\ \A b \in Blocks : Next_[b] = mem[b].next
      /\ Row \subseteq Kept /\ Kept \in SUBSET Blocks /\ Done \in SUBSET Blocks
      /\ mem[head].next \in Addresses /\ mem[head].mod_flow \in Addresses
      /\ ~mem[head].send_sock
  BY <1>2, Shape, Fields, Zenon DEF Places, First
<1>4. Types'
  BY <1>2, <1>3, Zenon DEF Types, Successor
<1>5. CASE mem[head].mod_flow # NULL
  <2>1. pc' = "cu_relink" /\ head' = mem[head].mod_flow
    BY <1>2, <1>5, Zenon DEF Successor
  <2>2. Quiet
    BY <1>2, <1>3, <2>1, Zenon DEF Quiet, First
  <2>3. /\ Lists' /\ mem' = mem
        /\ Next_' = Next_ /\ ModFlow' = ModFlow /\ Row' = Row /\ Done' = Done /\ Kept' = Kept
    BY <2>2, QuietLists, Zenon
  <2>4. Places'
    BY <1>2, <1>3, <1>5, <2>1, <2>3, Zenon DEF Places
  <2>5. Data'
    BY <1>2, <2>1, <2>3, Zenon DEF Data
  <2>6. Scan'
    BY <2>1, Zenon DEF Scan
  <2>7. Sockets'
    <3>1. Half' = {} /\ Half = {}
      BY <1>2, <2>1, Zenon DEF Half
    <3> QED BY <1>2, <2>1, <2>3, <3>1, ZenonT(60) DEF Sockets
  <2>8. Freed'
    BY <1>2, <2>1, <2>3, Zenon DEF Freed
  <2> QED BY <1>4, <2>3, <2>4, <2>5, <2>6, <2>7, <2>8, Zenon DEF Inv
<1>6. CASE mem[head].mod_flow = NULL
  <2>1. pc' = "cu_free" /\ head' = mem[head].next /\ First' = head'
    BY <1>2, <1>6, Zenon DEF Successor, First
  <2>2. Next_' = Next_ /\ ModFlow' = ModFlow /\ Done' = Done
    BY <1>2, Zenon DEF Next_, ModFlow, Done
  <2>3. Row' = Row \ {head} /\ Simple(First', Next_')
    <3>1. Replaces(mem[head].next, {}, head, Walk(head, Next_), Next_)
      BY <1>3, Zenon DEF Replaces
    <3>2. Walk(mem[head].next, Next_) = (Walk(head, Next_) \ {head}) \cup {}
          /\ Simple(mem[head].next, Next_)
      BY <1>3, <3>1, SpliceFirst, Zenon DEF Lists
    <3> QED BY <1>3, <2>1, <2>2, <3>2, Zenon DEF Row
  <2>4. Kept' = Kept \ {head}
    <3>1. All((Row \ {head}) \cup {}, ModFlow) = Kept \ {head}
      <4>1. {} = {mem[head].mod_flow} \ {NULL}
        BY <1>6, Zenon
      <4> QED BY <1>3, <4>1, KeptWithout, Zenon
    <3> QED BY <2>2, <2>3, <3>1, Zenon DEF Kept, All
  <2>5. Lists'
    <3>1. \A b \in Blocks : Moved(mem'[b], mem[b])
      BY <1>2, Zenon DEF Moved
    <3>2. \A b \in Kept \ {head} : mem[b].mod_flow # NULL /\ mem[mem[b].mod_flow].next # NULL =>
             b \in Row /\ mem[mem[b].mod_flow].next = mem[b].next
      BY Zenon DEF Lists
    <3>3. Simple(done', Next_')
      BY <1>2, <2>2, Zenon DEF Lists
    <3>4. Row' = (Row \ {head}) \cup {} /\ {} = {mem[head].mod_flow} \ {NULL}
      BY <1>6, <2>3, Zenon
    <3> QED BY <1>2, <1>3, <2>2, <2>3, <2>4, <3>1, <3>2, <3>3, <3>4, ListsWithout, Zenon
  <2>6. Places'
    BY <1>2, <1>3, <2>1, <2>2, <2>4, Zenon DEF Places, Off, Lists
  <2>7. Data'
    BY <1>2, <2>1, <2>4, Zenon DEF Data
  <2>8. Scan'
    BY <2>1, Zenon DEF Scan
  <2>9. Sockets'
    <3>1. {c \in Row' : mem'[c].send_sock} = {c \in Row : mem[c].send_sock}
      BY <1>2, <1>3, <2>3, Zenon
    <3>2. Half' = {} /\ Half = {}
      BY <1>2, <2>1, Zenon DEF Half
    <3>3. {mem'[b].flow_id : b \in {c \in Row' : mem'[c].send_sock}} =
             {mem[b].flow_id : b \in {c \in Row : mem[c].send_sock}}
      BY <1>2, <3>1, Zenon
    <3>4. \A b \in Kept' \ Row' : b \in Kept \ Row
      BY <2>3, <2>4, Zenon
    <3> QED BY <1>2, <2>1, <3>2, <3>3, <3>4, Zenon DEF Sockets
  <2>10. Freed'
    BY <1>2, <1>3, <2>1, <2>2, <2>4, Zenon DEF Freed, Lists
  <2> QED BY <1>4, <2>5, <2>6, <2>7, <2>8, <2>9, <2>10, Zenon DEF Inv
<1> QED BY <1>5, <1>6, Zenon

\* The block that clean_up replaces, and the one that comes after it.
LEMMA AtRelink ==
    ASSUME Types, Lists, Places, pc = "cu_relink"
    PROVE  /\ First = tmp1 /\ tmp1 \in Row /\ tmp1 \in Blocks /\ ~mem[tmp1].send_sock
           /\ head = mem[tmp1].mod_flow /\ head \in Kept \ Row /\ head \in Blocks /\ head \notin Done
           /\ head # tmp1 /\ mem[tmp1].next \in Addresses
<1>1. First = tmp1 /\ tmp1 # NULL /\ head = mem[tmp1].mod_flow /\ head # NULL /\ ~mem[tmp1].send_sock
  BY Zenon DEF First, Places
<1>2. tmp1 \in Row /\ tmp1 \in Blocks /\ head \in Kept /\ head \in Blocks /\ tmp1 \in Kept
  BY <1>1, Shape, Zenon
<1>3. head \notin Row /\ head \notin Done
  BY <1>1, <1>2, Zenon DEF Lists
<1> QED BY <1>1, <1>2, <1>3, Fields, Zenon

\* clean_up links that next block to the rest of the list.
LEMMA RelinkFirstStep ==
    ASSUME Inv, RelinkFirst PROVE Inv'
<1> SUFFICES ASSUME Types, Lists, Places, Data, Scan, Sockets, Freed PROVE Inv'
  BY Zenon DEF Inv
<1> USE DEF lists, parser, locals, system, Labels, Reading, Removing, Ending
<1>2. /\ pc = "cu_relink" /\ pc' = "cu_free"
      /\ UNCHANGED <<head, done, parser, locals, system, now, failures, signals, sent>>
  BY Zenon DEF RelinkFirst
<1>3. /\ First = tmp1 /\ tmp1 \in Row /\ tmp1 \in Blocks /\ ~mem[tmp1].send_sock
      /\ head = mem[tmp1].mod_flow /\ head \in Kept \ Row /\ head \in Blocks /\ head \notin Done
      /\ head # tmp1 /\ mem[tmp1].next \in Addresses
  BY <1>2, AtRelink, Zenon
<1>4. /\ Next_ \in Links /\ ModFlow \in Links
      /\ \A b \in Blocks : Next_[b] = mem[b].next
      /\ Row \in SUBSET Blocks /\ Row \subseteq Kept /\ Kept \in SUBSET Blocks
      /\ Done \in SUBSET Blocks /\ done \in Addresses /\ tmp1 \in Addresses
      /\ \A b \in Kept : mem[b].mod_flow # NULL => mem[b].mod_flow \in Kept
  BY Shape, Zenon
<1>5. /\ mem' \in [Blocks -> Structures]
      /\ \A b \in Blocks : Moved(mem'[b], mem[b])
      /\ \A b \in Blocks \ {head} : mem'[b] = mem[b]
      /\ mem'[head].next = mem[tmp1].next
      /\ Relinked(Next_, head, mem[tmp1].next, Next_') /\ ModFlow' = ModFlow
  <2>1. Linked(head, mem[tmp1].next)
    BY Zenon DEF Linked, RelinkFirst
  <2> QED BY <1>3, <2>1, NextSet, ZenonT(60)
<1>6. /\ Next_' \in Links /\ Next_'[head] = mem[tmp1].next
      /\ \A b \in Blocks \ {head} : Next_'[b] = Next_[b]
  BY <1>5, Zenon DEF Relinked
<1>7. First' = head
  BY <1>2, Zenon DEF First
<1>8. Row' = (Row \ {tmp1}) \cup {head} /\ Simple(First', Next_')
  <2>1. \A b \in Walk(tmp1, Next_) : Next_'[b] = Next_[b]
    BY <1>3, <1>4, <1>6, Zenon DEF Row
  <2>2. Walk(tmp1, Next_') = Row /\ Simple(tmp1, Next_')
    BY <1>3, <1>4, <1>6, <2>1, WalkSame, Zenon DEF Row, Lists
  <2>3. Replaces(head, {head}, tmp1, Walk(tmp1, Next_'), Next_')
    BY <1>3, <1>4, <1>6, <2>2, Zenon DEF Replaces
  <2>4. Walk(head, Next_') = (Walk(tmp1, Next_') \ {tmp1}) \cup {head} /\ Simple(head, Next_')
    BY <1>3, <1>6, <2>2, <2>3, SpliceFirst
  <2>5. Row' = Walk(head, Next_')
    BY <1>7, Zenon DEF Row
  <2> QED BY <1>7, <2>2, <2>4, <2>5, Zenon
<1>9. Kept' = Kept \ {tmp1}
  <2>1. {head} = {mem[tmp1].mod_flow} \ {NULL}
    BY <1>3, NoBlock, Zenon
  <2>2. All((Row \ {tmp1}) \cup {head}, ModFlow) = Kept \ {tmp1}
    BY <1>3, <2>1, KeptWithout, Zenon
  <2>3. Kept' = All(Row', ModFlow)
    BY <1>5, Zenon DEF Kept, All
  <2> QED BY <1>8, <2>2, <2>3, Zenon
<1>10. Done' = Done /\ Simple(done', Next_')
  <2>1. \A b \in Walk(done, Next_) : Next_'[b] = Next_[b]
    BY <1>3, <1>4, <1>6, Zenon DEF Done
  <2>2. Walk(done, Next_') = Walk(done, Next_) /\ Simple(done, Next_')
    BY <1>4, <1>6, <2>1, WalkSame, Zenon DEF Lists
  <2> QED BY <1>2, <2>2, Zenon DEF Done
<1>11. \A b \in Kept \ {tmp1} : mem[b].mod_flow # head
  <2>1. tmp1 \in Kept /\ head # NULL
    BY <1>3, <1>4, NoBlock, Zenon
  <2> QED BY <1>3, <2>1, Zenon DEF Lists
<1>12. Types'
  <2>1. pc' \in Labels
    BY <1>2, Zenon
  <2> QED BY <1>2, <1>5, <2>1, Zenon DEF Types
<1>13. Lists'
  <2>1. ASSUME NEW b \in Kept \ {tmp1}, mem[b].mod_flow # NULL, mem'[mem[b].mod_flow].next # NULL
        PROVE  b \in Row /\ mem'[mem[b].mod_flow].next = mem'[b].next
    <3>1. mem[b].mod_flow \in Blocks /\ mem[b].mod_flow # head
      BY <1>4, <1>11, <2>1, Zenon
    <3>2. mem'[mem[b].mod_flow] = mem[mem[b].mod_flow]
      BY <1>5, <3>1, Zenon
    <3>3. b \in Row /\ mem[mem[b].mod_flow].next = mem[b].next
      BY <2>1, <3>2, Zenon DEF Lists
    <3> QED BY <1>3, <1>4, <1>5, <3>2, <3>3, Zenon
  <2>2. {head} = {mem[tmp1].mod_flow} \ {NULL}
    BY <1>3, NoBlock, Zenon
  <2>3. \A b \in Blocks : mem'[b] = mem[b] \/ mem[b].flow_id # NULL
    BY <1>3, <1>5, Zenon DEF Lists
  <2>4. frees' = frees
    BY <1>2, Zenon
  <2> QED BY <1>3, <1>5, <1>8, <1>9, <1>10, <2>1, <2>2, <2>3, <2>4, ListsWithout, Zenon
<1>14. Places'
  <2>1. Off(tmp1)'
    <3>1. tmp1' = tmp1 /\ tmp1 \notin Done /\ mem[tmp1].flow_id # NULL
      BY <1>2, <1>3, <1>4, Zenon DEF Lists
    <3> QED BY <1>3, <1>5, <1>9, <1>10, <3>1, Zenon DEF Off
  <2> QED BY <1>2, <2>1, Zenon DEF Places
<1>15. Data'
  <2>1. \A b \in Kept : SameTimes(mem'[b], mem[b])
    BY <1>4, <1>5, Zenon DEF SameTimes, Moved
  <2>2. Kept' \in SUBSET Kept
    BY <1>9, Zenon
  <2> QED BY <1>2, <2>1, <2>2, DataSame, Zenon
<1>16. Scan'
  BY <1>2, Zenon DEF Scan
<1>17. Sockets'
  <2>1. \A b \in Blocks : mem'[b].send_sock = mem[b].send_sock /\ mem'[b].flow_id = mem[b].flow_id
    BY <1>5, Zenon DEF Moved
  <2> SUFFICES ASSUME signals = 0
               PROVE  /\ open' = {mem'[b].flow_id : b \in {c \in Row' : mem'[c].send_sock}} \ Half'
                      /\ \A b \in Kept' \ Row' : ~mem'[b].send_sock
    BY <1>2, Zenon DEF Sockets
  <2>2. \A b \in Kept \ Row : ~mem[b].send_sock
    BY <1>2, Zenon DEF Sockets
  <2>3. {c \in Row' : mem'[c].send_sock} = {c \in Row : mem[c].send_sock}
    BY <1>3, <1>4, <1>8, <2>1, <2>2, Zenon
  <2>4. {mem'[b].flow_id : b \in {c \in Row' : mem'[c].send_sock}} =
           {mem[b].flow_id : b \in {c \in Row : mem[c].send_sock}}
    <3>1. \A b \in {c \in Row : mem[c].send_sock} : mem'[b].flow_id = mem[b].flow_id
      BY <1>4, <2>1, Zenon
    <3> QED BY <2>3, <3>1, Zenon
  <2>5. Half' = {} /\ Half = {}
    BY <1>2, Zenon DEF Half
  <2> QED BY <1>2, <1>4, <1>8, <1>9, <2>1, <2>2, <2>4, <2>5, Zenon DEF Sockets
<1>18. Freed'
  <2>1. \A b \in Blocks : mem'[b].flow_id = mem[b].flow_id
    BY <1>5, Zenon DEF Moved
  <2>2. tmp1 \in Kept /\ frees[tmp1] = 0 /\ tmp1' = tmp1
    BY <1>2, <1>3, <1>4, Zenon DEF Lists
  <2> QED BY <1>2, <1>9, <1>10, <2>1, <2>2, Zenon DEF Freed
<1> QED BY <1>12, <1>13, <1>14, <1>15, <1>16, <1>17, <1>18, Zenon DEF Inv

\* What the next block leads to, before it is linked: all that is left, or itself.
LEMMA FromHeir ==
    ASSUME Types, Lists, Places, pc = "cu_relink"
    PROVE  \/ /\ Walk(head, Next_) = (Row \ {tmp1}) \cup {head}
              /\ All(Walk(head, Next_), ModFlow) = Kept \ {tmp1} /\ Simple(head, Next_)
           \/ /\ Walk(head, Next_) = {head}
              /\ All(Walk(head, Next_), ModFlow) \subseteq Kept \ Row /\ Simple(head, Next_)
<1>1. /\ First = tmp1 /\ tmp1 \in Row /\ tmp1 \in Blocks
      /\ head = mem[tmp1].mod_flow /\ head \in Kept \ Row /\ head \in Blocks
  BY AtRelink, Zenon
<1>2. /\ Next_ \in Links /\ ModFlow \in Links /\ \A b \in Blocks : Next_[b] = mem[b].next
      /\ \A b \in Blocks : ModFlow[b] = mem[b].mod_flow
      /\ Row \subseteq Kept /\ Kept \in SUBSET Blocks
      /\ \A b \in Kept : mem[b].mod_flow # NULL => mem[b].mod_flow \in Kept
  BY Shape, Zenon
<1>3. CASE mem[head].next = mem[tmp1].next
  <2>1. Replaces(head, {head}, tmp1, Walk(tmp1, Next_), Next_)
    BY <1>1, <1>2, <1>3, Zenon DEF Replaces, Row
  <2>2. Walk(head, Next_) = (Walk(tmp1, Next_) \ {tmp1}) \cup {head} /\ Simple(head, Next_)
    <3>1. Simple(tmp1, Next_)
      BY <1>1, Zenon DEF Lists
    <3> QED BY <1>1, <1>2, <2>1, <3>1, SpliceFirst
  <2>3. {head} = {mem[tmp1].mod_flow} \ {NULL}
    BY <1>1, NoBlock, Zenon
  <2>4. All((Row \ {tmp1}) \cup {head}, ModFlow) = Kept \ {tmp1}
    BY <1>1, <2>3, KeptWithout, Zenon
  <2> QED BY <1>1, <2>2, <2>4, Zenon DEF Row
<1>4. CASE mem[head].next = NULL
  <2>1. Walk(head, Next_) = {head} /\ Simple(head, Next_)
    BY <1>1, <1>2, <1>4, Alone, Zenon
  <2>2. \A b \in Kept \ Row : ModFlow[b] # NULL => ModFlow[b] \in Kept \ Row
    BY <1>2, ZenonT(60) DEF Lists
  <2>3. Kept \ Row \in SUBSET Blocks /\ {head} \in SUBSET Blocks /\ {head} \subseteq Kept \ Row
    BY <1>1, <1>2, Zenon
  <2>4. All({head}, ModFlow) \subseteq Kept \ Row
    BY <2>2, <2>3, AllLeast, Zenon
  <2> QED BY <2>1, <2>4, Zenon
<1>5. mem[head].next = mem[tmp1].next \/ mem[head].next = NULL
  <2>1. tmp1 \in Kept /\ mem[tmp1].mod_flow # NULL
    BY <1>1, <1>2, NoBlock, Zenon
  <2> QED BY <1>1, <2>1, Zenon DEF Lists
<1> QED BY <1>3, <1>4, <1>5, Zenon

\* A signal begins clean_up anew, wherever it finds the program.
LEMMA rude_handlerStep ==
    ASSUME Inv, rude_handler PROVE Inv'
<1> SUFFICES ASSUME Types, Lists, Places, Data, Scan, Sockets, Freed PROVE Inv'
  BY Zenon DEF Inv
<1> USE DEF lists, parser, locals, system, Labels, Reading, Removing, Ending
<1>2. /\ ~errors /\ pc \notin {"parse", "gone"} /\ pc' = "cu_close" /\ signals' = signals + 1
      /\ UNCHANGED <<lists, parser, locals, open, buffer, closes, frees, now, failures, sent>>
  BY Zenon DEF rude_handler
<1>3. signals' \in Nat /\ signals' # 0
  BY <1>2 DEF Types
<1>4. Types'
  BY <1>2, <1>3, Zenon DEF Types
<1>5. First' = head /\ Next_' = Next_ /\ ModFlow' = ModFlow /\ Done' = Done
  BY <1>2, Zenon DEF First, Next_, ModFlow, Done
<1>6. Lists' /\ Kept' \subseteq Kept
  <2>1. CASE pc # "cu_relink"
    <3>1. Quiet
      BY <1>2, <1>5, <2>1, Zenon DEF Quiet, First
    <3> QED BY <3>1, QuietLists, Zenon
  <2>2. CASE pc = "cu_relink"
    <3>1. /\ First = tmp1 /\ tmp1 \in Row /\ tmp1 \in Blocks
          /\ head = mem[tmp1].mod_flow /\ head \in Kept \ Row /\ head \in Blocks
      BY <2>2, AtRelink, Zenon
    <3>2. /\ Next_ \in Links /\ ModFlow \in Links /\ \A b \in Blocks : Next_[b] = mem[b].next
          /\ \A b \in Blocks : ModFlow[b] = mem[b].mod_flow
          /\ Row \subseteq Kept /\ Kept \in SUBSET Blocks /\ head \in Addresses
          /\ \A b \in Kept : mem[b].mod_flow # NULL => mem[b].mod_flow \in Kept
      BY Shape, Zenon
    <3>3. Kept' = All(Row', ModFlow) /\ Row' = Walk(head, Next_)
      BY <1>5, Zenon DEF Kept, All, Row
    <3>4. \A b \in Kept : mem[b].mod_flow # NULL /\ mem[mem[b].mod_flow].next # NULL =>
             b \in Row /\ mem[mem[b].mod_flow].next = mem[b].next
      BY Zenon DEF Lists
    <3>5. mem' = mem /\ frees' = frees /\ Simple(done', Next_')
      BY <1>2, <1>5, Zenon DEF Lists
    <3>6. CASE /\ Walk(head, Next_) = (Row \ {tmp1}) \cup {head}
               /\ All(Walk(head, Next_), ModFlow) = Kept \ {tmp1} /\ Simple(head, Next_)
      <4>1. Row' = (Row \ {tmp1}) \cup {head} /\ Kept' = Kept \ {tmp1} /\ Simple(First', Next_')
        BY <1>5, <3>3, <3>6, Zenon
      <4>2. {head} = {mem[tmp1].mod_flow} \ {NULL}
        BY <3>1, NoBlock, Zenon
      <4>3. \A b \in Blocks : Moved(mem'[b], mem[b])
        BY <1>2, Zenon DEF Moved
      <4>4. Lists'
        BY <1>5, <3>1, <3>4, <3>5, <4>1, <4>2, <4>3, ListsWithout, Zenon
      <4> QED BY <4>1, <4>4, Zenon
    <3>7. CASE /\ Walk(head, Next_) = {head}
               /\ All(Walk(head, Next_), ModFlow) \subseteq Kept \ Row /\ Simple(head, Next_)
      <4>1. Row' = {head} /\ Kept' \subseteq Kept \ Row /\ Simple(First', Next_')
        BY <1>5, <3>3, <3>7, Zenon
      <4>2. \A b \in Kept' : mem[b].mod_flow # head
        <5>1. tmp1 \in Kept /\ tmp1 \in Row /\ mem[tmp1].mod_flow = head /\ head # NULL
          BY <3>1, <3>2, NoBlock, Zenon
        <5> QED BY <4>1, <5>1, Zenon DEF Lists
      <4>3. \A b \in Kept' : mem[b].mod_flow # NULL => mem[mem[b].mod_flow].next = NULL
        BY <3>4, <4>1, Zenon
      <4>4. Lists'
        <5>1. \A b \in Kept' : b \in Kept /\ b \notin Row
          BY <4>1, Zenon
        <5>2. \A b \in Kept' : mem[b].mod_flow \notin Row'
          BY <4>1, <4>2, Zenon
        <5>3. \A b, c \in Row' : b = c
          BY <4>1, Zenon
        <5> QED BY <1>5, <3>5, <4>1, <4>3, <5>1, <5>2, <5>3, Zenon DEF Lists
      <4> QED BY <4>1, <4>4, Zenon
    <3> QED BY <2>2, <3>6, <3>7, FromHeir, Zenon
  <2> QED BY <2>1, <2>2, Zenon
<1>7. Places'
  BY <1>2, <1>3, Zenon DEF Places
<1>8. Data'
  <2>1. pc = "options" => Kept = {}
    <3>1. pc = "options" => First = NULL
      BY Zenon DEF Places, First
    <3> QED BY <3>1, Shape, Zenon
  <2> QED BY <1>2, <1>6, <2>1, Zenon DEF Data
<1>9. Scan'
  BY <1>2, Zenon DEF Scan
<1>10. Sockets'
  BY <1>2, <1>3, Zenon DEF Sockets
<1>11. Freed'
  BY <1>3, Zenon DEF Freed
<1> QED BY <1>4, <1>6, <1>7, <1>8, <1>9, <1>10, <1>11, Zenon DEF Inv

\* Two structures that differ in what the next block of a flow inherits at most.
Inherited(r, s) ==
    /\ r.mod_flow = s.mod_flow /\ r.flow_id = s.flow_id
    /\ r.flow_start = s.flow_start /\ r.flow_stop = s.flow_stop /\ r.next_tx = s.next_tx
    /\ r.traffic = s.traffic /\ r.list_index = s.list_index

\* The structures after the next block has inherited the place of another.
LEMMA InheritIs ==
    ASSUME Types, NEW x \in Blocks, NEW n \in Blocks, mem' = Inherit(x, n)
    PROVE  /\ mem' \in [Blocks -> Structures]
           /\ \A b \in Blocks : Inherited(mem'[b], mem[b])
           /\ \A b \in Blocks \ {n} : mem'[b] = mem[b]
           /\ mem'[n].next = mem[x].next /\ mem'[n].send_sock = mem[x].send_sock
           /\ mem'[n].sequence_nmbr = mem[x].sequence_nmbr
           /\ Relinked(Next_, n, mem[x].next, Next_') /\ ModFlow' = ModFlow
<1>1. mem \in [Blocks -> Structures]
  BY Zenon DEF Types
<1>2. /\ mem[n] \in Structures /\ mem[x].next \in Addresses /\ mem[x].send_sock \in BOOLEAN
      /\ mem[x].sequence_nmbr \in Nat
  BY <1>1, Fields, Zenon
<1> DEFINE r1 == [mem[n] EXCEPT !.next = mem[x].next]
           r2 == [r1 EXCEPT !.send_sock = mem[x].send_sock]
           r == [r2 EXCEPT !.sequence_nmbr = mem[x].sequence_nmbr]
<1>3. mem' = [mem EXCEPT ![n] = r]
  BY <1>1, Zenon DEF Inherit
<1>4. r1 \in Structures
  BY <1>2, Zenon DEF Structures
<1>5. r1.next = mem[x].next /\ Moved(r1, mem[n])
  BY <1>2, Zenon DEF Structures, Moved
<1> HIDE DEF r1
<1>6. r2 \in Structures /\ r2.send_sock = mem[x].send_sock /\ Alike(r2, r1)
  BY <1>2, <1>4, WithSocket, Zenon
<1> HIDE DEF r2
<1>7. r \in Structures
  BY <1>2, <1>6, Zenon DEF Structures
<1>8. /\ r.sequence_nmbr = mem[x].sequence_nmbr /\ r.next = r2.next
      /\ r.send_sock = r2.send_sock /\ Inherited(r, r2)
  BY <1>6, Zenon DEF Structures, Inherited
<1> HIDE DEF r
<1>9. /\ r.next = mem[x].next /\ r.send_sock = mem[x].send_sock /\ Inherited(r, mem[n])
  BY <1>5, <1>6, <1>8, Zenon DEF Inherited, Alike, Moved
<1>10. \A b \in Blocks : Inherited(mem[b], mem[b])
  BY Zenon DEF Inherited
<1>11. /\ mem' \in [Blocks -> Structures] /\ mem'[n] = r
       /\ \A b \in Blocks : Inherited(mem'[b], mem[b])
       /\ \A b \in Blocks \ {n} : mem'[b] = mem[b]
  BY <1>1, <1>3, <1>7, <1>9, <1>10, Zenon
<1>12. ModFlow' = ModFlow
  BY <1>11, Zenon DEF ModFlow, Inherited
<1>13. Next_' \in Links /\ \A b \in Blocks : Next_'[b] = mem'[b].next /\ Next_[b] = mem[b].next
  BY <1>11, Zenon DEF Next_, Links, Structures
<1>14. Relinked(Next_, n, mem[x].next, Next_')
  BY <1>9, <1>11, <1>13 DEF Relinked
<1> QED BY <1>8, <1>9, <1>11, <1>12, <1>14, Zenon

\* remove_flow hands place, socket and sequence number on to the next block.
LEMMA InheritStep ==
    ASSUME Inv, InitNextBlock, mem[flow].mod_flow # NULL PROVE Inv'
<1> SUFFICES ASSUME Types, Lists, Places, Data, Scan, Sockets, Freed PROVE Inv'
  BY Zenon DEF Inv
<1> DEFINE n == mem[flow].mod_flow
<1>2. /\ pc = "rm_init" /\ pc' = "rm_unlink"
      /\ UNCHANGED <<open, closes>>
      /\ head' = head /\ done' = done /\ errors' = errors /\ commands' = commands
      /\ start_set' = start_set /\ tester_start' = tester_start
      /\ flow' = flow /\ prev' = prev /\ target' = target /\ checked' = checked /\ tmp1' = tmp1
      /\ buffer' = buffer /\ sched' = sched /\ frees' = frees
      /\ now' = now /\ failures' = failures /\ signals' = signals /\ sent' = sent
      /\ pc \in Removing /\ pc \notin Reading /\ pc \notin Ending
      /\ pc' \in Removing /\ pc' \notin Reading /\ pc' \notin Ending /\ pc' \in Labels
  BY Zenon DEF InitNextBlock, parser, locals, Removing, Reading, Ending, Labels
<1>3. /\ Next_ \in Links /\ ModFlow \in Links /\ \A b \in Blocks : Next_[b] = mem[b].next
      /\ Row \in SUBSET Blocks /\ Row \subseteq Kept /\ Kept \in SUBSET Blocks
      /\ Done \in SUBSET Blocks /\ First \in Addresses /\ done \in Addresses
      /\ \A b \in Kept : mem[b].mod_flow # NULL => mem[b].mod_flow \in Kept
  BY Shape, Zenon
<1>4. /\ flow \in Row /\ flow \in Blocks /\ flow \in Kept /\ n \in Kept \ Row /\ n \in Blocks
      /\ n \notin Done /\ n # flow /\ mem[n].flow_id # NULL
      /\ \A b \in Kept : mem[b].mod_flow = n => b = flow
  <2>1. flow \in Row /\ n # NULL
    BY <1>2, Zenon DEF Places
  <2>2. flow \in Blocks /\ flow \in Kept /\ n \in Kept /\ n \in Blocks
    BY <1>3, <2>1, Zenon
  <2>3. n \notin Row /\ n \notin Done /\ mem[n].flow_id # NULL
    BY <2>2, Zenon DEF Lists
  <2>4. \A b \in Kept : mem[b].mod_flow = n => b = flow
    BY <2>1, <2>2, Zenon DEF Lists
  <2> QED BY <2>1, <2>2, <2>3, <2>4, Zenon
<1>5. /\ mem' \in [Blocks -> Structures]
      /\ \A b \in Blocks : Inherited(mem'[b], mem[b])
      /\ \A b \in Blocks \ {n} : mem'[b] = mem[b]
      /\ mem'[n].next = mem[flow].next /\ mem'[n].send_sock = mem[flow].send_sock
      /\ mem'[n].sequence_nmbr = mem[flow].sequence_nmbr
      /\ Relinked(Next_, n, mem[flow].next, Next_') /\ ModFlow' = ModFlow
  <2>1. mem' = Inherit(flow, n)
    BY Zenon DEF InitNextBlock
  <2> QED BY <1>4, <2>1, InheritIs, Zenon
<1> HIDE DEF n
<1>6. n = mem[flow].mod_flow
  BY Zenon DEF n
<1>7. /\ Next_' \in Links /\ \A b \in Blocks \ {n} : Next_'[b] = Next_[b]
  BY <1>5, Zenon DEF Relinked
<1>8. Row' = Row /\ Kept' = Kept /\ Simple(First', Next_') /\ First' = First
  <2>1. First' = First
    BY <1>2, Zenon DEF First
  <2>2. \A b \in Walk(First, Next_) : Next_'[b] = Next_[b]
    BY <1>3, <1>4, <1>7, Zenon DEF Row
  <2>3. Walk(First, Next_') = Row /\ Simple(First, Next_')
    <3>1. Simple(First, Next_)
      BY Zenon DEF Lists
    <3> QED BY <1>3, <1>7, <2>2, <3>1, WalkSame, Zenon DEF Row
  <2>4. Row' = Row
    BY <2>1, <2>3, Zenon DEF Row
  <2> QED BY <1>5, <2>1, <2>3, <2>4, Zenon DEF Kept
<1>9. Done' = Done /\ Simple(done', Next_')
  <2>1. \A b \in Walk(done, Next_) : Next_'[b] = Next_[b]
    BY <1>3, <1>4, <1>7, Zenon DEF Done
  <2>2. Walk(done, Next_') = Walk(done, Next_) /\ Simple(done, Next_')
    BY <1>3, <1>7, <2>1, WalkSame, Zenon DEF Lists
  <2> QED BY <1>2, <2>2, Zenon DEF Done
<1>10. Types'
  <2>1. pc' \in Labels
    BY <1>2, Zenon
  <2> QED BY <1>2, <1>5, <2>1, Zenon DEF Types
<1>11. \A b \in Row : mem'[b] = mem[b]
  BY <1>3, <1>4, <1>5, Zenon
<1>12. \A b \in Kept : mem'[b].mod_flow = mem[b].mod_flow /\ mem'[b].flow_id = mem[b].flow_id
  BY <1>3, <1>5, Zenon DEF Inherited
<1>13. Lists'
  <2>1. ASSUME NEW b \in Kept, mem[b].mod_flow # NULL
        PROVE  /\ mem'[mem[b].mod_flow].flow_id = mem[b].flow_id
               /\ mem'[mem[b].mod_flow].next # NULL =>
                     b \in Row /\ mem'[mem[b].mod_flow].next = mem'[b].next
    <3>1. CASE b = flow
      <4>1. mem[flow].flow_id = mem[n].flow_id /\ mem'[flow].next = mem[flow].next
        BY <1>4, <1>6, <1>11, <2>1, <3>1, Zenon DEF Lists
      <4>2. mem'[n].flow_id = mem[n].flow_id
        BY <1>4, <1>12, Zenon
      <4> QED BY <1>4, <1>5, <1>6, <3>1, <4>1, <4>2, Zenon
    <3>2. CASE b # flow
      <4>1. mem[b].mod_flow \in Blocks /\ mem'[mem[b].mod_flow] = mem[mem[b].mod_flow]
        BY <1>3, <1>4, <1>5, <2>1, <3>2, Zenon
      <4>2. /\ mem[mem[b].mod_flow].flow_id = mem[b].flow_id
            /\ mem[mem[b].mod_flow].next # NULL => b \in Row /\ mem[mem[b].mod_flow].next = mem[b].next
        BY <2>1, Zenon DEF Lists
      <4> QED BY <1>11, <4>1, <4>2, Zenon
    <3> QED BY <3>1, <3>2, Zenon
  <2>2. \A b \in Kept \cup Done : mem'[b].flow_id # NULL /\ frees'[b] = 0
    <3>1. \A b \in Kept \cup Done : b \in Blocks /\ mem[b].flow_id # NULL /\ frees[b] = 0
      BY <1>3, Zenon DEF Lists
    <3>2. frees' = frees /\ \A b \in Blocks : mem'[b].flow_id = mem[b].flow_id
      BY <1>2, <1>5, Zenon DEF Inherited
    <3> QED BY <3>1, <3>2, Zenon
  <2>3. \A b \in Blocks : mem'[b].flow_id = NULL => mem'[b] = Zero
    <3>1. \A b \in Blocks : mem[b].flow_id = NULL => mem[b] = Zero
      BY Zenon DEF Lists
    <3>2. mem'[n].flow_id # NULL
      BY <1>4, <1>12, Zenon
    <3> QED BY <1>5, <3>1, <3>2, Zenon
  <2>4. ASSUME NEW b \in Kept, NEW c \in Kept, mem'[b].mod_flow = mem'[c].mod_flow,
               mem'[b].mod_flow # NULL
        PROVE  b = c
    <3>1. mem[b].mod_flow = mem[c].mod_flow /\ mem[b].mod_flow # NULL
      BY <1>12, <2>4, Zenon
    <3> QED BY <3>1, ZenonT(60) DEF Lists
  <2>5. \A b, c \in Row : mem'[b].flow_id = mem'[c].flow_id => b = c
    <3>1. \A b, c \in Row : mem[b].flow_id = mem[c].flow_id => b = c
      BY Zenon DEF Lists
    <3> QED BY <1>11, <3>1, Zenon
  <2>6. \A b \in Kept : mem'[b].mod_flow \notin Row
    BY <1>12, Zenon DEF Lists
  <2>7. ASSUME NEW b \in Kept, mem'[b].mod_flow # NULL
        PROVE  /\ mem'[mem'[b].mod_flow].flow_id = mem'[b].flow_id
               /\ mem'[mem'[b].mod_flow].next # NULL =>
                     b \in Row /\ mem'[mem'[b].mod_flow].next = mem'[b].next
    BY <1>12, <2>1, <2>7, Zenon
  <2>8. Kept \cap Done = {}
    BY Zenon DEF Lists
  <2> QED BY <1>8, <1>9, <2>2, <2>3, <2>4, <2>5, <2>6, <2>7, <2>8, ZenonT(60) DEF Lists
<1>14. Places'
  <2>1. flow' = flow /\ mem'[flow] = mem[flow]
    BY <1>2, <1>4, <1>11, Zenon
  <2>2. \A b \in Kept \ Row : mem'[b].next # NULL => b = n
    BY <1>2, <1>3, <1>5, Zenon DEF Places
  <2>3. /\ mem'[flow].mod_flow = n /\ mem'[n].next = mem'[flow].next
        /\ mem'[n].send_sock = mem'[flow].send_sock
        /\ mem'[n].sequence_nmbr = mem'[flow].sequence_nmbr
    BY <1>5, <1>6, <2>1, Zenon
  <2>4. \A b \in Kept \ Row : mem'[b].next # NULL => b = mem'[flow].mod_flow
    BY <2>2, <2>3, Zenon
  <2>5. mem'[flow].mod_flow # NULL
    BY <1>6, <2>3, Zenon
  <2> QED BY <1>2, <1>4, <1>8, <2>3, <2>4, <2>5, Zenon DEF Places
<1>15. Data'
  <2>1. \A b \in Kept : SameTimes(mem'[b], mem[b])
    BY <1>3, <1>5, Zenon DEF Inherited, SameTimes
  <2> QED BY <1>2, <1>8, <2>1, DataSame, Zenon
<1>16. Scan'
  <2>1. Position' = Position /\ Position = flow
    BY <1>2, Zenon DEF Position
  <2>2. Ahead' = Ahead /\ Passed' = Passed /\ Passed \subseteq Row
    <3>1. \A b \in Walk(flow, Next_) : Next_'[b] = Next_[b]
      BY <1>2, <1>3, <1>4, <1>7, <2>1, Zenon DEF Scan, Ahead
    <3>2. Walk(flow, Next_') = Walk(flow, Next_)
      BY <1>3, <1>4, <1>7, <3>1, WalkSame, Zenon DEF Addresses
    <3> QED BY <1>8, <2>1, <3>2, Zenon DEF Ahead, Passed
  <2>3. prev # NULL => mem'[prev] = mem[prev]
    BY <1>2, <1>11, <2>2, Zenon DEF Scan
  <2>4. target # NULL => mem'[target] = mem[target]
    BY <1>2, <1>11, <2>2, Zenon DEF Scan
  <2>5. \A b \in Passed : mem'[b] = mem[b] /\ mem'[target] = mem[target]
    BY <1>2, <1>11, <2>2, <2>4, Zenon DEF Scan
  <2> QED BY <1>2, <1>8, <2>1, <2>2, <2>3, <2>4, <2>5, Zenon DEF Scan
<1>17. Sockets'
  <2>1. {mem'[b].flow_id : b \in {c \in Row' : mem'[c].send_sock}} =
           {mem[b].flow_id : b \in {c \in Row : mem[c].send_sock}}
    BY <1>8, <1>11, Zenon
  <2>2. \A b \in Kept \ Row : mem'[b].send_sock => b = n
    <3>1. signals = 0
      BY <1>2 DEF Places, Types
    <3>2. \A b \in Kept \ Row : ~mem[b].send_sock
      BY <1>2, <3>1, Zenon DEF Sockets
    <3>3. \A b \in Kept \ Row : b # n => mem'[b] = mem[b]
      BY <1>3, <1>5, Zenon
    <3> QED BY <3>2, <3>3, Zenon
  <2>3. flow' = flow /\ mem'[flow] = mem[flow]
    BY <1>2, <1>4, <1>11, Zenon
  <2>4. Half' = {} /\ Half = {}
    BY <1>2, Zenon DEF Half
  <2>5. mem'[flow'].mod_flow = n
    BY <1>6, <2>3, Zenon
  <2>6. /\ \A b \in Row' : mem'[b].send_sock
        /\ \A b \in Row' : mem'[b].sequence_nmbr = sent'[mem'[b].flow_id]
    BY <1>2, <1>8, <1>11, Zenon DEF Sockets
  <2> QED BY <1>2, <1>8, <2>1, <2>2, <2>4, <2>5, <2>6, Zenon DEF Sockets
<1>18. Freed'
  <2>1. \A b \in Blocks : mem'[b].flow_id = mem[b].flow_id
    BY <1>5, Zenon DEF Inherited
  <2> QED BY <1>2, <1>8, <1>9, <2>1, Zenon DEF Freed
<1> QED BY <1>10, <1>13, <1>14, <1>15, <1>16, <1>17, <1>18, Zenon DEF Inv

\* remove_flow replaces a block by the next one of its flow, or closes its socket.
LEMMA InitNextBlockStep ==
    ASSUME Inv, InitNextBlock PROVE Inv'
<1>1. CASE mem[flow].mod_flow # NULL
  BY <1>1, InheritStep, Zenon
<1>2. CASE mem[flow].mod_flow = NULL
  <2>1. Types /\ Lists /\ Places /\ Data /\ Scan /\ Sockets /\ Freed
    BY Zenon DEF Inv
  <2> USE DEF lists, parser, locals, system, Labels, Reading, Removing, Ending
  <2> DEFINE id == mem[flow].flow_id
  <2>2. /\ flow \in Row /\ Row \subseteq Kept /\ Row \in SUBSET Blocks /\ mem[flow].send_sock
        /\ id \in FlowIds
        /\ \A b, c \in Row : mem[b].flow_id = mem[c].flow_id => b = c
    <3>1. flow \in Row /\ pc = "rm_init"
      BY <2>1, Zenon DEF InitNextBlock, Places
    <3>2. mem[flow].send_sock
      BY <2>1, <3>1, Zenon DEF Sockets
    <3>3. Row \subseteq Kept /\ Row \in SUBSET Blocks
      BY <2>1, Shape, Zenon
    <3>4. id \in FlowIds
      BY <2>1, <3>1, <3>3, InUse, Zenon
    <3> QED BY <2>1, <3>1, <3>2, <3>3, <3>4, Zenon DEF Lists
  <2>3. /\ pc = "rm_init" /\ pc' = "rm_zero" /\ mem' = mem
        /\ open' = open \ {id} /\ closes' = [closes EXCEPT ![id] = @ + 1]
        /\ UNCHANGED <<head, done, parser, locals, buffer, sched, frees, now, failures, signals,
                       sent>>
    BY <1>2, <2>2, Zenon DEF InitNextBlock, Close
  <2>4. closes \in [FlowIds -> Nat] /\ open \subseteq FlowIds /\ signals = 0
    BY <2>1, <2>3 DEF Types, Places
  <2>5. Types'
    <3>1. pc' \in Labels /\ open' \subseteq FlowIds /\ closes' \in [FlowIds -> Nat]
      BY <2>2, <2>3, <2>4
    <3> QED BY <2>1, <2>3, <3>1, Zenon DEF Types
  <2>6. Quiet
    BY <2>3, Zenon DEF Quiet, First
  <2>7. /\ Lists' /\ mem' = mem
        /\ Next_' = Next_ /\ ModFlow' = ModFlow /\ Row' = Row /\ Done' = Done /\ Kept' = Kept
    BY <2>1, <2>6, QuietLists, Zenon
  <2>8. Places'
    BY <1>2, <2>1, <2>3, <2>7, Zenon DEF Places
  <2>9. Data'
    BY <2>1, <2>3, <2>7, Zenon DEF Data
  <2>10. Scan'
    <3>1. Position' = Position /\ Ahead' = Ahead /\ Passed' = Passed
      BY <2>3, <2>7, Zenon DEF Position, Ahead, Passed
    <3> QED BY <2>1, <2>3, <2>7, <3>1, Zenon DEF Scan
  <2>11. Sockets'
    <3>1. Half' = {id} /\ Half = {}
      <4>1. \A f \in FlowIds : f \in Half' <=> f = id
        BY <2>3, Zenon DEF Half
      <4>2. Half = {} /\ Half' \subseteq FlowIds
        BY <2>3, Zenon DEF Half
      <4> QED BY <2>2, <4>1, <4>2, Zenon
    <3>2. id \in open /\ closes[id] = 0
      BY <2>1, <2>2, <2>4, <3>1, Zenon DEF Sockets
    <3>3. \A f \in FlowIds : closes'[f] <= 1 /\ (f \in open' => closes'[f] = 0)
      BY <2>1, <2>2, <2>3, <2>4, <3>2, SMTT(30) DEF Sockets
    <3>4. open' = {mem[b].flow_id : b \in {c \in Row : mem[c].send_sock}} \ {id}
      BY <2>1, <2>3, <2>4, <3>1, Zenon DEF Sockets
    <3>5. \A b \in Kept \ Row : ~mem[b].send_sock
      BY <2>1, <2>3, <2>4, Zenon DEF Sockets
    <3>6. /\ \A b \in Row : mem[b].send_sock
          /\ \A b \in Row : mem[b].sequence_nmbr = sent[mem[b].flow_id]
      BY <2>1, <2>3, Zenon DEF Sockets
    <3>7. /\ open' = {mem'[b].flow_id : b \in {c \in Row' : mem'[c].send_sock}} \ Half'
          /\ \A b \in Kept' \ Row' : ~mem'[b].send_sock
          /\ \A b \in Row' : mem'[b].send_sock
      BY <2>7, <3>1, <3>4, <3>5, <3>6, Zenon
    <3>8. \A b \in Row' : mem'[b].sequence_nmbr = sent'[mem'[b].flow_id]
      BY <2>3, <2>7, <3>6, Zenon
    <3> QED BY <2>3, <3>3, <3>7, <3>8, Zenon DEF Sockets
  <2>12. Freed'
    BY <2>1, <2>3, <2>7, Zenon DEF Freed
  <2> QED BY <2>5, <2>7, <2>8, <2>9, <2>10, <2>11, <2>12, Zenon DEF Inv
<1> QED BY <1>1, <1>2, Zenon

\* What takes the place of the block that remove_flow takes off the list.
LEMMA Heir ==
    ASSUME Types, Lists, Places, pc = "rm_unlink",
           NEW R, R = {mem[flow].mod_flow} \ {NULL}
    PROVE  /\ First = head /\ flow \in Row /\ flow \in Kept /\ flow \in Blocks
           /\ R \subseteq Kept \ Row
           /\ Successor(flow) \in Addresses
           /\ Replaces(Successor(flow), R, flow, Row, Next_)
<1>1. flow \in Row /\ First = head
  BY Zenon DEF Places, Removing, First
<1>2. /\ flow \in Kept /\ flow \in Blocks /\ Row \subseteq Kept /\ Kept \in SUBSET Blocks
      /\ \A b \in Blocks : Next_[b] = mem[b].next
      /\ \A b \in Kept : mem[b].mod_flow # NULL => mem[b].mod_flow \in Kept \ Row
      /\ mem[flow].next \in Addresses /\ mem[flow].mod_flow \in Addresses
  BY <1>1, Shape, Fields, Zenon DEF Lists
<1>3. Replaces(Successor(flow), R, flow, Row, Next_)
  <2>1. CASE mem[flow].mod_flow = NULL
    BY <1>2, <2>1, Zenon DEF Replaces, Successor
  <2>2. CASE mem[flow].mod_flow # NULL
    <3>1. mem[mem[flow].mod_flow].next = mem[flow].next
      BY <2>2, Zenon DEF Places
    <3>2. mem[flow].mod_flow \in Blocks \ Row
      BY <1>2, <2>2, Zenon
    <3> QED BY <1>2, <2>2, <3>1, <3>2, Zenon DEF Replaces, Successor
  <2> QED BY <2>1, <2>2, Zenon
<1>4. R \subseteq Kept \ Row
  BY <1>2, Zenon
<1> QED BY <1>1, <1>2, <1>3, <1>4, Zenon DEF Successor

\* The two ways to take it off.
LEMMA UnlinkIs ==
    ASSUME Inv, Unlink, NEW R, R = {mem[flow].mod_flow} \ {NULL}
    PROVE  /\ mem' \in [Blocks -> Structures]
           /\ \A b \in Blocks : Moved(mem'[b], mem[b])
           /\ \A b \in Blocks \ Row : mem'[b] = mem[b]
           /\ ModFlow' = ModFlow /\ head' \in Addresses
           /\ Row' = (Row \ {flow}) \cup R /\ Simple(First', Next_')
           /\ Done' = Done /\ Simple(done', Next_')
           /\ Ahead' = (Ahead \ {flow}) \cup R
           /\ flow \in Ahead /\ Ahead \subseteq Row
<1> DEFINE s == Successor(flow)
<1>1. /\ Types /\ Lists /\ Places /\ Scan
      /\ pc = "rm_unlink" /\ pc' = "rm_link" /\ done' = done /\ flow' = flow /\ prev' = prev
  BY Zenon DEF Inv, Unlink, locals
<1>2. /\ First = head /\ flow \in Row /\ flow \in Kept /\ flow \in Blocks
      /\ R \subseteq Kept \ Row /\ s \in Addresses /\ Replaces(s, R, flow, Row, Next_)
  BY <1>1, Heir, Zenon
<1>3. /\ Next_ \in Links /\ \A b \in Blocks : Next_[b] = mem[b].next
      /\ Row \in SUBSET Blocks /\ Row \subseteq Kept /\ Kept \in SUBSET Blocks
      /\ Done \in SUBSET Blocks /\ head \in Addresses /\ done \in Addresses
      /\ prev \in Addresses /\ head \in Row /\ Kept \cap Done = {}
  <2>1. First # NULL
    BY <1>1, <1>2, Shape, Zenon
  <2>2. /\ Next_ \in Links /\ \A b \in Blocks : Next_[b] = mem[b].next
        /\ Row \in SUBSET Blocks /\ Row \subseteq Kept /\ Kept \in SUBSET Blocks
        /\ Done \in SUBSET Blocks
        /\ First # NULL => First \in Row
    BY <1>1, Shape, Zenon
  <2>3. head \in Addresses /\ done \in Addresses /\ prev \in Addresses /\ Kept \cap Done = {}
    BY <1>1, Zenon DEF Lists, Types
  <2> QED BY <1>2, <2>1, <2>2, <2>3, Zenon
<1>4. Simple(head, Next_) /\ Simple(done, Next_) /\ Row = Walk(head, Next_)
  BY <1>1, <1>2, Zenon DEF Lists, Row
<1>5. /\ Ahead = Walk(flow, Next_) /\ Ahead \subseteq Row /\ flow \in Ahead /\ Simple(flow, Next_)
      /\ flow = IF prev # NULL THEN mem[prev].next ELSE head
      /\ prev # NULL => prev \in Row
  <2>1. Ahead = Walk(flow, Next_)
    BY <1>1, Zenon DEF Ahead, Position
  <2>2. Walk(flow, Next_) \subseteq Row /\ flow \in Walk(flow, Next_)
    BY <1>1, <1>2, Rest, Zenon
  <2>3. Simple(flow, Next_)
    BY <1>2, <1>3, <1>4, SubWalk, Zenon
  <2>4. /\ flow = IF prev # NULL THEN mem[prev].next ELSE head
        /\ prev # NULL => prev \in Row
    BY <1>1, Zenon DEF Scan, Removing, Position, Passed
  <2> QED BY <2>1, <2>2, <2>3, <2>4, Zenon
<1>6. First' = head'
  BY <1>1, Zenon DEF First
<1> HIDE DEF s
<1>7. Walk(s, Next_) = (Ahead \ {flow}) \cup R
  <2>1. Replaces(s, R, flow, Walk(flow, Next_), Next_)
    BY <1>2, <1>5, Zenon DEF Replaces
  <2>2. Walk(s, Next_) = (Walk(flow, Next_) \ {flow}) \cup R
    <3>1. flow \in Blocks /\ Next_ \in Links /\ Simple(flow, Next_)
      BY <1>2, <1>3, <1>5, Zenon
    <3> QED BY <2>1, <3>1, SpliceFirst
  <2> QED BY <1>5, <2>2, Zenon
<1>8. CASE head = flow
  <2>1. head' = s /\ mem' = mem
    BY <1>8, Zenon DEF Unlink, s
  <2>2. Next_' = Next_ /\ ModFlow' = ModFlow /\ \A b \in Blocks : Moved(mem'[b], mem[b])
    BY <2>1, Zenon DEF Next_, ModFlow, Moved
  <2>3. Walk(s, Next_) = (Row \ {flow}) \cup R /\ Simple(s, Next_)
    BY <1>2, <1>3, <1>4, <1>8, SpliceFirst
  <2>4. prev = NULL
    BY <1>3, <1>4, <1>5, <1>8, Zenon DEF Simple
  <2>5. Position' = s
    BY <1>1, <2>1, <2>4, Zenon DEF Position
  <2>6. Ahead' = Walk(s, Next_) /\ Row' = Walk(s, Next_) /\ Done' = Done
    BY <1>1, <1>6, <2>1, <2>2, <2>5, Zenon DEF Ahead, Row, Done
  <2> QED BY <1>1, <1>2, <1>4, <1>5, <1>6, <1>7, <2>1, <2>2, <2>3, <2>6, Zenon DEF Types
<1>9. CASE head # flow
  <2> DEFINE before == CHOOSE p \in Entries : mem[p].next = flow
  <2>1. before \in Row /\ mem[before].next = flow /\ before \in Blocks
    <3>1. \E b \in Walk(head, Next_) : Next_[b] = flow
      BY <1>2, <1>3, <1>4, <1>9, Before, Zenon
    <3>2. \E p \in Entries : mem[p].next = flow
      BY <1>3, <1>4, <3>1, Zenon DEF Entries
    <3> HIDE DEF before
    <3>3. before \in Entries /\ mem[before].next = flow
      BY <3>2, Zenon DEF before
    <3> QED BY <1>3, <1>4, <3>3, Zenon DEF Entries
  <2>2. Linked(before, s) /\ head' = head
    BY <1>9, Zenon DEF Unlink, s, Linked
  <2> HIDE DEF before
  <2>3. /\ mem' \in [Blocks -> Structures]
        /\ \A b \in Blocks : Moved(mem'[b], mem[b])
        /\ \A b \in Blocks \ {before} : mem'[b] = mem[b]
        /\ mem'[before].next = s
        /\ Relinked(Next_, before, s, Next_') /\ ModFlow' = ModFlow
    BY <1>1, <1>2, <2>1, <2>2, NextSet, Zenon
  <2>4. Next_' \in Links /\ \A b \in Blocks \ {before} : Next_'[b] = Next_[b]
    BY <2>3, Zenon DEF Relinked
  <2>5. Walk(head, Next_') = (Row \ {flow}) \cup R /\ Simple(head, Next_')
    <3>1. Next_[before] = flow /\ head \in Blocks /\ before \in Walk(head, Next_)
      BY <1>3, <1>4, <2>1, Zenon
    <3>2. Spliced(head, Next_, before, flow, s, R, Next_')
      BY <1>2, <1>3, <1>4, <2>3, <3>1, Zenon DEF Spliced
    <3>3. /\ Walk(head, Next_') = (Walk(head, Next_) \ {flow}) \cup R
          /\ Simple(head, Next_')
      BY <3>2, SpliceLater
    <3> QED BY <1>4, <3>3, Zenon
  <2>6. Walk(done, Next_') = Done /\ Simple(done, Next_')
    <3>1. \A b \in Walk(done, Next_) : Next_'[b] = Next_[b]
      BY <1>3, <2>1, <2>4, Zenon DEF Done
    <3> QED BY <1>3, <1>4, <2>4, <3>1, WalkSame, Zenon DEF Done
  <2>7. prev = before
    <3>1. prev # NULL /\ prev \in Row /\ Next_[prev] = flow /\ Next_[before] = flow
      BY <1>3, <1>5, <1>9, <2>1, Zenon
    <3> QED BY <1>2, <1>4, <2>1, <3>1, NoBlock, Zenon DEF Simple
  <2>8. Position' = s
    <3>1. prev # NULL
      BY <1>5, <1>9, Zenon
    <3> QED BY <1>1, <2>3, <2>7, <3>1, Zenon DEF Position
  <2>9. Walk(s, Next_') = Walk(s, Next_)
    <3>1. before \notin Ahead
      BY <1>3, <1>5, <2>1, Zenon DEF Simple
    <3>2. before \notin (Ahead \ {flow}) \cup R /\ (Ahead \ {flow}) \cup R \subseteq Blocks
      BY <1>2, <1>3, <1>5, <2>1, <3>1, Zenon
    <3>3. \A b \in Walk(s, Next_) : Next_'[b] = Next_[b]
      BY <1>7, <2>4, <3>2, Zenon
    <3> QED BY <1>2, <1>3, <2>4, <3>3, WalkSame, Zenon
  <2>10. Ahead' = Walk(s, Next_') /\ Row' = Walk(head, Next_') /\ Done' = Walk(done, Next_')
    BY <1>1, <1>6, <2>2, <2>8, Zenon DEF Ahead, Row, Done
  <2>11. \A b \in Blocks \ Row : mem'[b] = mem[b]
    BY <2>1, <2>3, Zenon
  <2>12. Row' = (Row \ {flow}) \cup R /\ Simple(First', Next_')
    BY <1>6, <2>2, <2>5, <2>10, Zenon
  <2>13. Done' = Done /\ Simple(done', Next_')
    BY <1>1, <2>6, <2>10, Zenon
  <2>14. Ahead' = (Ahead \ {flow}) \cup R /\ head' \in Addresses
    BY <1>3, <1>7, <2>2, <2>9, <2>10, Zenon
  <2> QED BY <1>5, <2>3, <2>11, <2>12, <2>13, <2>14, Zenon
<1> QED BY <1>8, <1>9, Zenon

\* remove_flow takes the block off the active list.
LEMMA UnlinkStep ==
    ASSUME Inv, Unlink PROVE Inv'
<1> SUFFICES ASSUME Types, Lists, Places, Data, Scan, Sockets, Freed PROVE Inv'
  BY Zenon DEF Inv
<1> USE DEF lists, parser, locals, system, Labels, Reading, Removing, Ending
<1>2. /\ pc = "rm_unlink" /\ pc' = "rm_link"
      /\ UNCHANGED <<done, parser, locals, system, now, failures, signals, sent>>
  BY Zenon DEF Unlink
<1> DEFINE R == {mem[flow].mod_flow} \ {NULL}
<1>3. /\ mem' \in [Blocks -> Structures]
      /\ \A b \in Blocks : Moved(mem'[b], mem[b])
      /\ \A b \in Blocks \ Row : mem'[b] = mem[b]
      /\ ModFlow' = ModFlow /\ head' \in Addresses
      /\ Row' = (Row \ {flow}) \cup R /\ Simple(First', Next_')
      /\ Done' = Done /\ Simple(done', Next_')
      /\ Ahead' = (Ahead \ {flow}) \cup R
      /\ flow \in Ahead /\ Ahead \subseteq Row
  BY UnlinkIs, Zenon
<1>4. flow \in Row /\ flow \in Kept /\ flow \in Blocks /\ R \subseteq Kept \ Row
  BY <1>2, Heir, Zenon
<1>5. /\ Row \in SUBSET Blocks /\ Row \subseteq Kept /\ Kept \in SUBSET Blocks
      /\ Done \in SUBSET Blocks
      /\ \A b \in Kept : mem[b].mod_flow # NULL => mem[b].mod_flow \in Kept \ Row
  BY Shape, Zenon DEF Lists
<1>6. \A b \in R : /\ b = mem[flow].mod_flow /\ mem[flow].mod_flow # NULL
                   /\ mem[b].flow_id = mem[flow].flow_id
                   /\ mem[b].send_sock = mem[flow].send_sock
                   /\ mem[b].sequence_nmbr = mem[flow].sequence_nmbr
  <2>1. \A b \in R : b = mem[flow].mod_flow /\ mem[flow].mod_flow # NULL
    BY Zenon
  <2>2. mem[flow].mod_flow # NULL =>
           /\ mem[mem[flow].mod_flow].flow_id = mem[flow].flow_id
           /\ mem[mem[flow].mod_flow].send_sock = mem[flow].send_sock
           /\ mem[mem[flow].mod_flow].sequence_nmbr = mem[flow].sequence_nmbr
    BY <1>2, <1>4, Zenon DEF Lists, Places
  <2> QED BY <2>1, <2>2, Zenon
<1>7. \A b \in Kept \ {flow} : mem[b].mod_flow \notin R
  BY <1>4, Zenon DEF Lists
<1>8. R = {} => mem[flow].mod_flow = NULL /\ ~mem[flow].send_sock
  <2>1. R = {} => mem[flow].mod_flow = NULL
    BY Zenon
  <2>2. mem[flow].mod_flow = NULL => ~mem[flow].send_sock
    BY <1>2, Zenon DEF Places
  <2> QED BY <2>1, <2>2, Zenon
<1>9. \A b \in Kept \ (Row \cup R) : mem[b].next = NULL
  BY <1>2, <1>5, NoBlock, Zenon DEF Places
<1>10. Kept' = Kept \ {flow}
  <2>1. All((Row \ {flow}) \cup R, ModFlow) = Kept \ {flow}
    BY <1>4, KeptWithout, Zenon
  <2>2. Kept' = All(Row', ModFlow)
    BY <1>3, Zenon DEF Kept, All
  <2> QED BY <1>3, <2>1, <2>2, Zenon
<1>11. Lists'
  <2>1. R = {mem[flow].mod_flow} \ {NULL}
    BY Zenon
  <2> HIDE DEF R
  <2>2. ASSUME NEW b \in Kept \ {flow}, mem[b].mod_flow # NULL
        PROVE  mem'[mem[b].mod_flow].next = NULL
    <3>1. mem[b].mod_flow \in Kept \ (Row \cup R)
      BY <1>5, <1>7, <2>2, Zenon
    <3>2. mem'[mem[b].mod_flow] = mem[mem[b].mod_flow]
      BY <1>3, <1>5, <3>1, Zenon
    <3> QED BY <1>9, <3>1, <3>2, Zenon
  <2>3. \A b \in Blocks : mem'[b] = mem[b] \/ mem[b].flow_id # NULL
    BY <1>3, <1>5, Zenon DEF Lists
  <2>4. frees' = frees
    BY <1>2, Zenon
  <2> QED BY <1>3, <1>4, <1>10, <2>1, <2>2, <2>3, <2>4, ListsWithout, Zenon
<1> HIDE DEF R
<1>12. Types'
  <2>1. pc' \in Labels
    BY <1>2, Zenon
  <2> QED BY <1>2, <1>3, <2>1, Zenon DEF Types
<1>13. Places'
  <2>1. Off(flow)' /\ frees'[flow'] = 0
    <3>1. flow' = flow /\ flow \notin Done /\ mem[flow].flow_id # NULL /\ frees'[flow] = 0
      BY <1>2, <1>4, Zenon DEF Lists
    <3>2. mem'[flow].flow_id # NULL
      BY <1>3, <1>4, <3>1, Zenon DEF Moved
    <3> QED BY <1>3, <1>4, <1>10, <3>1, <3>2, Zenon DEF Off
  <2>2. \A b \in Kept' \ Row' : mem'[b].next = NULL
    BY <1>3, <1>5, <1>9, <1>10, Zenon
  <2> QED BY <1>2, <2>1, <2>2, Zenon DEF Places
<1>14. Data'
  <2>1. \A b \in Kept : SameTimes(mem'[b], mem[b])
    BY <1>3, <1>5, Zenon DEF Moved, SameTimes
  <2>2. Kept' \in SUBSET Kept
    BY <1>10, Zenon
  <2> QED BY <1>2, <2>1, <2>2, DataSame, Zenon
<1>15. Scan'
  <2>1. Passed' = Passed
    BY <1>3, <1>4, Zenon DEF Passed
  <2>2. Ahead' \subseteq Row'
    BY <1>3, Zenon
  <2>3. Position' = IF prev' # NULL THEN mem'[prev'].next ELSE head'
    BY <1>2, Zenon DEF Position
  <2>4. \A b \in Passed : mem'[b].next_tx = mem[b].next_tx /\ mem'[b].flow_stop = mem[b].flow_stop
    BY <1>3, <1>5, Zenon DEF Moved, Passed
  <2>5. /\ prev # NULL => prev \in Passed
        /\ target = NULL <=> Passed = {}
        /\ target # NULL => target \in Passed
        /\ \A b \in Passed : mem[target].next_tx <= mem[b].next_tx
        /\ target # NULL => mem[target].next_tx <= mem[target].flow_stop
    BY <1>2, Zenon DEF Scan
  <2>6. \A b \in Passed : target \in Passed
    BY <2>5, Zenon
  <2> QED BY <1>2, <2>1, <2>2, <2>3, <2>4, <2>5, <2>6, Zenon DEF Scan
<1>16. Sockets'
  <2>1. \A b \in Blocks : /\ mem'[b].send_sock = mem[b].send_sock
                          /\ mem'[b].flow_id = mem[b].flow_id
                          /\ mem'[b].sequence_nmbr = mem[b].sequence_nmbr
    BY <1>3, Zenon DEF Moved
  <2>2. {mem[b].flow_id : b \in {c \in Row' : mem[c].send_sock}} =
           {mem[b].flow_id : b \in {c \in Row : mem[c].send_sock}}
    <3>1. CASE R = {}
      <4>1. {c \in Row' : mem[c].send_sock} = {c \in Row : mem[c].send_sock}
        BY <1>3, <1>8, <3>1, Zenon
      <4> QED BY <4>1, Zenon
    <3>2. CASE R # {}
      <4>1. PICK n \in R : TRUE
        BY <3>2, Zenon
      <4>2. R = {n} /\ mem[n].flow_id = mem[flow].flow_id /\ mem[n].send_sock = mem[flow].send_sock
        BY <1>6, <4>1, Zenon
      <4>3. \A b \in Row' : b \in Row \/ b = n
        BY <1>3, <4>2, Zenon
      <4>4. \A b \in Row : b \in Row' \/ b = flow
        BY <1>3, Zenon
      <4>5. n \in Row' /\ flow \in Row
        BY <1>3, <1>4, <4>2, Zenon
      <4> QED BY <4>2, <4>3, <4>4, <4>5, Zenon
    <3> QED BY <3>1, <3>2, Zenon
  <2>3. {mem'[b].flow_id : b \in {c \in Row' : mem'[c].send_sock}} =
           {mem[b].flow_id : b \in {c \in Row' : mem[c].send_sock}}
    <3>1. \A b \in Row' : mem'[b].send_sock = mem[b].send_sock /\ mem'[b].flow_id = mem[b].flow_id
      BY <1>3, <1>4, <1>5, <2>1, Zenon
    <3> QED BY <3>1, Zenon
  <2>4. signals = 0 => \A b \in Kept' \ Row' : ~mem'[b].send_sock
    <3>1. signals = 0 => \A b \in Kept \ Row : mem[b].send_sock => b \in R
      BY <1>2, <1>5, NoBlock, Zenon DEF Sockets, R
    <3> QED BY <1>3, <1>5, <1>10, <2>1, <3>1, Zenon
  <2>5. \A b \in Row' : mem'[b].send_sock
    <3>1. \A b \in Row : mem[b].send_sock \/ (b = flow /\ R = {})
      BY <1>2, Zenon DEF Sockets, R
    <3> QED BY <1>3, <1>4, <1>5, <1>6, <2>1, <3>1, Zenon
  <2>6. \A b \in Row' : mem'[b].sequence_nmbr = sent'[mem'[b].flow_id]
    <3>1. \A b \in Row : mem[b].sequence_nmbr = sent[mem[b].flow_id]
      BY <1>2, Zenon DEF Sockets
    <3>2. \A b \in R : mem[b].sequence_nmbr = sent[mem[b].flow_id] /\ b \in Blocks
      BY <1>4, <1>5, <1>6, <3>1, Zenon
    <3>3. \A b \in Row' : mem[b].sequence_nmbr = sent[mem[b].flow_id] /\ b \in Blocks
      BY <1>3, <1>5, <3>1, <3>2, Zenon
    <3> QED BY <1>2, <2>1, <3>3, Zenon
  <2>7. Half' = {} /\ Half = {}
    BY <1>2, Zenon DEF Half
  <2> QED BY <1>2, <2>2, <2>3, <2>4, <2>5, <2>6, <2>7, Zenon DEF Sockets
<1>17. Freed'
  <2>1. \A b \in Blocks : mem'[b].flow_id = mem[b].flow_id
    BY <1>3, Zenon DEF Moved
  <2>2. flow' = flow /\ frees' = frees /\ frees[flow] = 0
    BY <1>2, <1>4, Zenon DEF Lists
  <2> QED BY <1>2, <1>3, <1>10, <2>1, <2>2, Zenon DEF Freed
<1> QED BY <1>11, <1>12, <1>13, <1>14, <1>15, <1>16, <1>17, Zenon DEF Inv

\* Sums and products of natural numbers are natural numbers.
LEMMA Grows ==
    ASSUME NEW a \in Nat, NEW x \in Nat, NEW c \in Nat
    PROVE  a * x + c \in Nat /\ c + a * x \in Nat
OBVIOUS

\* A second has at least one tick.
LEMMA SecondNat == Second \in Nat /\ Second > 0
BY RudeAssumption DEF Second

-----------------------------------------------------------------------------
(* START: the time that start_time computes, for every pair of times of day *)

InSeconds(t) == 3600 * t.hour + 60 * t.min + t.sec

\* The range of a field of a time.
LEMMA InRange ==
    ASSUME NEW t \in Times
    PROVE  /\ t.hour \in Int /\ 0 <= t.hour /\ t.hour < 24
           /\ t.min \in Int /\ 0 <= t.min /\ t.min < 60
           /\ t.sec \in Int /\ 0 <= t.sec /\ t.sec < 60
BY SMT DEF Times

\* The fields of a time of day, as numbers.
LEMMA TimeFields ==
    ASSUME NEW t \in Times
    PROVE  \E h, m, s \in Int :
              /\ h = t.hour /\ 0 <= h /\ h < 24
              /\ m = t.min /\ 0 <= m /\ m < 60
              /\ s = t.sec /\ 0 <= s /\ s < 60
BY InRange, Zenon

\* The seconds that start_time adds are the difference of the two times, or that
\* and a day when the time asked for is over.
LEMMA Difference ==
    ASSUME NEW t \in Times, NEW c \in Times
    PROVE  \E a, b, u \in Int :
              /\ a = InSeconds(t) /\ 0 <= a /\ a < 86400
              /\ b = InSeconds(c) /\ 0 <= b /\ b < 86400
              /\ u = Until(t, c)
              /\ \/ a >= b /\ u = a - b
                 \/ a < b /\ u = a - b + 86400
  <1>1. PICK th, tm, ts \in Int :
           /\ th = t.hour /\ 0 <= th /\ th < 24
           /\ tm = t.min /\ 0 <= tm /\ tm < 60
           /\ ts = t.sec /\ 0 <= ts /\ ts < 60
    BY TimeFields, Zenon
  <1>2. PICK ch, cm, cs \in Int :
           /\ ch = c.hour /\ 0 <= ch /\ ch < 24
           /\ cm = c.min /\ 0 <= cm /\ cm < 60
           /\ cs = c.sec /\ 0 <= cs /\ cs < 60
    BY TimeFields, Zenon
  <1>3. PICK m \in Int : m = IF ts < cs THEN tm - 1 ELSE tm
    BY ONLY ts \in Int, cs \in Int, tm \in Int, SMTT(30)
  <1>4. PICK h \in Int : h = IF m < cm THEN th - 1 ELSE th
    BY ONLY m \in Int, cm \in Int, th \in Int, SMTT(30)
  <1>5. PICK s1 \in Int : s1 = IF ts < cs THEN ts + 60 - cs ELSE ts - cs
    <2>1. (IF ts < cs THEN ts + 60 - cs ELSE ts - cs) \in Int
      BY ONLY ts \in Int, cs \in Int, SMTT(30)
    <2> WITNESS (IF ts < cs THEN ts + 60 - cs ELSE ts - cs) \in Int
    <2> QED BY Zenon
  <1>6. PICK m1 \in Int : m1 = IF m < cm THEN m + 60 - cm ELSE m - cm
    <2>1. (IF m < cm THEN m + 60 - cm ELSE m - cm) \in Int
      BY ONLY m \in Int, cm \in Int, SMTT(30)
    <2> WITNESS (IF m < cm THEN m + 60 - cm ELSE m - cm) \in Int
    <2> QED BY Zenon
  <1>7. PICK h1 \in Int : h1 = IF h < ch THEN h + 24 - ch ELSE h - ch
    <2>1. (IF h < ch THEN h + 24 - ch ELSE h - ch) \in Int
      BY ONLY h \in Int, ch \in Int, SMTT(30)
    <2> WITNESS (IF h < ch THEN h + 24 - ch ELSE h - ch) \in Int
    <2> QED BY Zenon
  <1>8. PICK a \in Int : a = 3600 * th + 60 * tm + ts
    BY ONLY th \in Int, tm \in Int, ts \in Int, SMTT(30)
  <1>9. PICK b \in Int : b = 3600 * ch + 60 * cm + cs
    BY ONLY ch \in Int, cm \in Int, cs \in Int, SMTT(30)
  <1>10. PICK u \in Int : u = s1 + 60 * m1 + 3600 * h1
    BY ONLY s1 \in Int, m1 \in Int, h1 \in Int, SMTT(30)
  <1>11. Until(t, c) = u
    BY ONLY <1>1, <1>2, <1>3, <1>4, <1>5, <1>6, <1>7, <1>10, SMTT(30) DEF Until, Left, Minute, Hour
  <1>12. InSeconds(t) = a /\ InSeconds(c) = b
    BY ONLY <1>1, <1>2, <1>8, <1>9, SMTT(30) DEF InSeconds
  <1>13. 0 <= a /\ a < 86400 /\ 0 <= b /\ b < 86400
    BY ONLY <1>1, <1>2, <1>8, <1>9, th \in Int, tm \in Int, ts \in Int, ch \in Int, cm \in Int,
            cs \in Int, a \in Int, b \in Int, SMTT(30)
  <1>14. s1 + 60 * m = ts - cs + 60 * tm /\ 0 <= s1 /\ s1 < 60 /\ -1 <= m /\ m < 60
    BY ONLY <1>1, <1>2, <1>3, <1>5, ts \in Int, cs \in Int, tm \in Int, m \in Int, s1 \in Int, SMTT(30)
  <1>15. m1 + 60 * h = m - cm + 60 * th /\ 0 <= m1 /\ m1 < 60
    BY ONLY <1>2, <1>4, <1>6, <1>14, m \in Int, cm \in Int, th \in Int, h \in Int, m1 \in Int, SMTT(30)
  <1>16. \/ h >= ch /\ h1 = h - ch
         \/ h < ch /\ h1 = h - ch + 24
    BY ONLY <1>7, h \in Int, ch \in Int, h1 \in Int, SMTT(30)
  <1>17. \/ a >= b /\ u = a - b
         \/ a < b /\ u = a - b + 86400
    <2>1. ASSUME h >= ch, h1 = h - ch
          PROVE  u = a - b /\ u >= 0
      BY ONLY <2>1, <1>8, <1>9, <1>10, <1>14, <1>15, th \in Int, tm \in Int, ts \in Int, ch \in Int,
              cm \in Int, cs \in Int, h \in Int, m \in Int, s1 \in Int, m1 \in Int, h1 \in Int,
              a \in Int, b \in Int, u \in Int, SMTT(30)
    <2>2. ASSUME h < ch, h1 = h - ch + 24
          PROVE  u = a - b + 86400 /\ u < 86400
      BY ONLY <2>2, <1>8, <1>9, <1>10, <1>14, <1>15, th \in Int, tm \in Int, ts \in Int, ch \in Int,
              cm \in Int, cs \in Int, h \in Int, m \in Int, s1 \in Int, m1 \in Int, h1 \in Int,
              a \in Int, b \in Int, u \in Int, SMTT(30)
    <2> QED BY ONLY <1>16, <2>1, <2>2, a \in Int, b \in Int, u \in Int, SMTT(30)
  <1> QED BY ONLY <1>11, <1>12, <1>13, <1>17, a \in Int, b \in Int, u \in Int, SMTT(30)

\* start_time computes the next moment at which the clock shows the time asked for:
\* less than a day away, at once if the clock shows it already, and no other moment
\* of the day to come shows the same time.
THEOREM StartIsNext ==
    ASSUME NEW t \in Times, NEW c \in Times
    PROVE  /\ Until(t, c) \in Int /\ 0 <= Until(t, c) /\ Until(t, c) < 86400
           /\ \A n \in Int : 0 <= n /\ n < 86400 =>
                 ((InSeconds(c) + n) % 86400 = InSeconds(t) <=> n = Until(t, c))
  <1>1. PICK a, b, u \in Int :
           /\ a = InSeconds(t) /\ 0 <= a /\ a < 86400
           /\ b = InSeconds(c) /\ 0 <= b /\ b < 86400
           /\ u = Until(t, c)
           /\ \/ a >= b /\ u = a - b
              \/ a < b /\ u = a - b + 86400
    BY Difference, SMTT(30)
  <1>2. 0 <= u /\ u < 86400
    BY ONLY <1>1, a \in Int, b \in Int, u \in Int, SMTT(30)
  <1>3. ASSUME NEW n \in Int, 0 <= n, n < 86400
        PROVE  (b + n) % 86400 = a <=> n = u
    <2>1. 0 <= b /\ b < 86400
      BY <1>1
    <2>2. (b + n) % 86400 = IF b + n < 86400 THEN b + n ELSE b + n - 86400
      BY ONLY <1>3, <2>1, n \in Int, b \in Int, SMTT(30)
    <2>3. (b + n < 86400 /\ (b + n = a <=> n = u)) \/ (b + n >= 86400 /\ (b + n - 86400 = a <=> n = u))
      BY ONLY <1>1, <1>3, a \in Int, b \in Int, u \in Int, n \in Int, SMTT(30)
    <2> QED BY ONLY <2>2, <2>3, a \in Int, b \in Int, u \in Int, n \in Int, SMTT(30)
  <1> QED BY ONLY <1>1, <1>2, <1>3, u \in Int, SMTT(30)

\* Whether a set has an element is a Boolean.
LEMMA Decided ==
    ASSUME NEW t, NEW S, NEW x, x = (t \in S) PROVE x \in BOOLEAN
BY SMTT(30)

\* START with a time of day.
LEMMA start_timeStep ==
    ASSUME Inv, NEW t \in Starts, start_time(t) PROVE Inv'
<1>1. /\ errors \in BOOLEAN /\ commands \in BOOLEAN /\ start_set \in BOOLEAN
      /\ tester_start \in Nat /\ now \in Nat
  BY Zenon DEF Inv, Types
<1>2. t \in Times => Until(t, localtime) \in Nat
  <2>1. localtime \in Times
    BY RudeAssumption, Zenon
  <2>2. ASSUME t \in Times PROVE Until(t, localtime) \in Nat
    <3>1. Until(t, localtime) \in Int /\ 0 <= Until(t, localtime)
      BY <2>1, <2>2, StartIsNext
    <3> QED BY <3>1
  <2> QED BY <2>2, Zenon
<1>3. t \in Times => now + Second * Until(t, localtime) \in Nat
  BY <1>1, <1>2, SecondNat, Grows, Zenon
<1>4. tester_start' \in Nat
  BY <1>1, <1>3, Zenon DEF start_time
<1>5. start_set' \in BOOLEAN /\ commands' \in BOOLEAN /\ errors' \in BOOLEAN /\ (errors => errors')
  <2>1. CASE t \in Times
    BY <1>1, <2>1, Zenon DEF start_time, Count
  <2>2. CASE t \notin Times
    <3>1. start_set' = (t \in Times) /\ commands' = (commands \/ t \in Times) /\ errors' = (errors \/ t \notin Times)
      BY Zenon DEF start_time, Count
    <3>2. start_set' \in BOOLEAN
      BY <3>1, Decided, Zenon
    <3>3. commands' \in BOOLEAN
      BY <1>1, <2>2, <3>1, Zenon
    <3>4. errors' = TRUE
      BY <2>2, <3>1, Zenon
    <3> QED BY <3>2, <3>3, <3>4, Zenon
  <2> QED BY <2>1, <2>2, Zenon
<1>6. Remark
  BY <1>4, <1>5, Zenon DEF start_time, Line, Remark, locals, system
<1> QED BY <1>6, RemarkStep, Zenon

\* The times to wait are naturals, see TrafficTyped.
Timed == \A tr \in Traffic : tr.waits \in Seq(Nat)

\* The structure of a block that has sent a packet.
LEMMA AfterSendIs ==
    ASSUME Timed, NEW s \in Structures, NEW ok \in BOOLEAN, s.traffic \in Traffic,
           s.list_index \in 1 .. Len(s.traffic.waits)
    PROVE  LET r == AfterSend(s, ok)
           IN  /\ r \in Structures
               /\ r.next = s.next /\ r.mod_flow = s.mod_flow /\ r.flow_id = s.flow_id
               /\ r.flow_start = s.flow_start /\ r.flow_stop = s.flow_stop
               /\ r.traffic = s.traffic /\ r.send_sock = s.send_sock
               /\ r.list_index \in 1 .. Len(s.traffic.waits)
               /\ r.sequence_nmbr = s.sequence_nmbr + 1 /\ r.next_tx >= s.next_tx
<1> DEFINE w == s.traffic.waits
           i == s.list_index
           r == AfterSend(s, ok)
           i2 == (i % Len(w)) + 1
           t2 == s.next_tx + w[i]
<1>1. w \in Seq(Nat)
  BY Zenon DEF Structures, Timed
<1>2. i \in 1 .. Len(w) /\ s.next_tx \in Nat /\ s.sequence_nmbr \in Nat /\ Len(w) \in Nat
  BY <1>1 DEF Structures
<1> HIDE DEF w, i
<1>3. t2 \in Nat /\ t2 >= s.next_tx /\ i2 \in 1 .. Len(w) /\ i2 \in Nat
  BY <1>1, <1>2, SMTT(30)
<1> DEFINE good == IF ok THEN s.success + 1 ELSE s.success
           bad == IF ok THEN s.errors ELSE s.errors + 1
           q2 == s.sequence_nmbr + 1
<1>4. r = [s EXCEPT !.success = good, !.errors = bad,
                    !.sequence_nmbr = q2, !.next_tx = t2, !.list_index = i2]
  BY Zenon DEF AfterSend, Structures, w, i
<1>5. r \in Structures
  <2>1. s.success \in Nat /\ s.errors \in Nat
    BY Zenon DEF Structures
  <2>2. good \in Nat /\ bad \in Nat /\ q2 \in Nat /\ t2 \in Nat /\ i2 \in Nat
    <3>1. s.success + 1 \in Nat /\ s.errors + 1 \in Nat /\ q2 \in Nat
      BY <1>2, <2>1, SMTT(30)
    <3>2. good \in Nat /\ bad \in Nat
      BY <2>1, <3>1, Zenon
    <3> QED BY <1>3, <3>1, <3>2, Zenon
  <2> HIDE DEF r, t2, i2, q2, good, bad
  <2> DEFINE r1 == [s EXCEPT !.success = good]
             r2 == [r1 EXCEPT !.errors = bad]
             r3 == [r2 EXCEPT !.sequence_nmbr = q2]
             r4 == [r3 EXCEPT !.next_tx = t2]
             r5 == [r4 EXCEPT !.list_index = i2]
  <2>3. r = r5
    BY <1>4, Zenon
  <2>4. r1 \in Structures
    BY <2>2, Zenon DEF Structures
  <2> HIDE DEF r1
  <2>5. r2 \in Structures
    BY <2>2, <2>4, Zenon DEF Structures
  <2> HIDE DEF r2
  <2>6. r3 \in Structures
    BY <2>2, <2>5, Zenon DEF Structures
  <2> HIDE DEF r3
  <2>7. r4 \in Structures
    BY <2>2, <2>6, Zenon DEF Structures
  <2> HIDE DEF r4
  <2>8. r5 \in Structures
    BY <2>2, <2>7, Zenon DEF Structures
  <2> QED BY <2>3, <2>8, Zenon
<1> HIDE DEF r, t2, i2, good, bad
<1>6. /\ r.next = s.next /\ r.mod_flow = s.mod_flow /\ r.flow_id = s.flow_id
      /\ r.flow_start = s.flow_start /\ r.flow_stop = s.flow_stop
      /\ r.traffic = s.traffic /\ r.list_index = i2
      /\ r.sequence_nmbr = s.sequence_nmbr + 1 /\ r.next_tx = t2
  BY <1>4, Zenon DEF Structures
<1>7. r.send_sock = s.send_sock
  BY <1>4, Zenon DEF Structures
<1> QED BY <1>3, <1>5, <1>6, <1>7, Zenon DEF r, w

\* A block has sent a packet.
Emitted(ok) == mem' = [mem EXCEPT ![target] = AfterSend(mem[target], ok)]

\* The next packet is not before this one.
LEMMA Later == \A a, x, y \in Nat : y >= x => (a <= x => a <= y) /\ (x > a => y > a)
OBVIOUS

\* A packet is sent.
LEMMA send_funcStep ==
    ASSUME Timed, Inv, send_func PROVE Inv'
<1> SUFFICES ASSUME Types, Lists, Places, Data, Scan, Sockets, Freed PROVE Inv'
  BY Zenon DEF Inv
<1> USE DEF lists, parser, locals, system, Labels, Reading, Removing, Ending
<1>1. /\ pc = "wait" /\ pc' = "run" /\ sent' = [sent EXCEPT ![mem[target].flow_id] = @ + 1]
      /\ failures' = failures \/ failures' = failures + 1
      /\ UNCHANGED <<head, done, parser, locals, system, now, signals>>
  BY Zenon DEF send_func, Fail
<1>2. target \in Row /\ target \in Kept /\ target \in Blocks /\ mem[target].flow_id \in FlowIds
  BY <1>1, Shape, InUse, Zenon DEF Scan
<1>3. PICK ok \in BOOLEAN : Emitted(ok)
  BY Zenon DEF send_func, Emitted
<1> DEFINE s == mem[target]
           r == AfterSend(mem[target], ok)
<1>4. s \in Structures /\ mem \in [Blocks -> Structures]
  BY <1>2, Zenon DEF Types
<1>5. s.traffic \in Traffic /\ s.list_index \in 1 .. Len(s.traffic.waits)
  <2>1. s.next_tx <= s.flow_stop /\ s.next_tx \in Nat /\ s.flow_stop \in Nat
    BY <1>1, <1>2, Fields, Zenon DEF Scan
  <2>2. /\ s.traffic \in Traffic
        /\ s.traffic.waits # <<>> => s.list_index \in 1 .. Len(s.traffic.waits)
        /\ s.traffic.waits = <<>> => s.next_tx > s.flow_stop
    BY <1>1, <1>2, Zenon DEF Data
  <2> HIDE DEF s
  <2> QED BY <2>1, <2>2
<1>6. /\ r \in Structures
      /\ r.next = s.next /\ r.mod_flow = s.mod_flow /\ r.flow_id = s.flow_id
      /\ r.flow_start = s.flow_start /\ r.flow_stop = s.flow_stop
      /\ r.traffic = s.traffic /\ r.send_sock = s.send_sock
      /\ r.list_index \in 1 .. Len(s.traffic.waits)
      /\ r.sequence_nmbr = s.sequence_nmbr + 1 /\ r.next_tx >= s.next_tx
  BY <1>4, <1>5, AfterSendIs, Zenon
<1> HIDE DEF r
<1>7. /\ mem' \in [Blocks -> Structures] /\ mem'[target] = r
      /\ \A b \in Blocks \ {target} : mem'[b] = mem[b]
  BY <1>2, <1>3, <1>4, <1>6, Zenon DEF r, Emitted
<1>8. Types'
  <2>1. failures' \in Nat
    BY <1>1 DEF Types
  <2>2. sent' \in [FlowIds -> Nat]
    BY <1>1, <1>2 DEF Types
  <2> QED BY <1>1, <1>7, <2>1, <2>2, Zenon DEF Types
<1>9. \A b \in Blocks : /\ mem'[b].next = mem[b].next /\ mem'[b].mod_flow = mem[b].mod_flow
                        /\ mem'[b].flow_id = mem[b].flow_id /\ mem'[b].traffic = mem[b].traffic
                        /\ mem'[b].flow_start = mem[b].flow_start
                        /\ mem'[b].flow_stop = mem[b].flow_stop
                        /\ mem'[b].next_tx >= mem[b].next_tx
  <2>1. \A b \in Blocks : mem[b].next_tx >= mem[b].next_tx
    <3>1. \A x \in Nat : x >= x
      OBVIOUS
    <3> QED BY <3>1, Fields, Zenon
  <2> QED BY <1>6, <1>7, <2>1, Zenon
<1>10. \A b \in Blocks : mem'[b].send_sock = mem[b].send_sock
  BY <1>6, <1>7, Zenon
<1>11. Steady
  BY <1>1, <1>2, <1>7, <1>9, NoBlock, Zenon DEF Steady, First
<1>12. /\ Lists'
       /\ Next_' = Next_ /\ ModFlow' = ModFlow /\ Row' = Row /\ Done' = Done /\ Kept' = Kept
  BY <1>11, SteadyLists, Zenon
<1>13. /\ Row \in SUBSET Blocks /\ Kept \in SUBSET Blocks /\ Row \subseteq Kept
       /\ \A b \in Kept : mem[b].mod_flow # NULL => mem[b].mod_flow \in Kept
  BY Shape, Zenon
<1>14. Places'
  BY <1>1, <1>9, <1>12, <1>13, Zenon DEF Places
<1>15. Data'
  <2>1. \A b \in Kept : /\ mem[b].next_tx \in Nat /\ mem[b].flow_stop \in Nat /\ mem[b].flow_start \in Nat
                        /\ mem'[b].next_tx \in Nat
    BY <1>7, <1>13, Fields, Zenon DEF Structures
  <2>2. \A b \in Kept : mem'[b].traffic.waits # <<>> =>
                           mem'[b].list_index \in 1 .. Len(mem'[b].traffic.waits)
    BY <1>6, <1>7, <1>13, Zenon DEF Data
  <2>3. \A b \in Kept : mem[b].mod_flow # NULL =>
                           mem'[b].flow_stop <= mem'[mem[b].mod_flow].flow_start
    BY <1>9, <1>13, Zenon DEF Data
  <2>4. ASSUME NEW b \in Kept
        PROVE  /\ mem'[b].traffic = mem[b].traffic /\ mem'[b].flow_start = mem[b].flow_start
               /\ mem'[b].flow_stop = mem[b].flow_stop /\ mem'[b].mod_flow = mem[b].mod_flow
               /\ mem[b].flow_start <= mem[b].next_tx => mem'[b].flow_start <= mem'[b].next_tx
               /\ mem[b].next_tx > mem[b].flow_stop => mem'[b].next_tx > mem'[b].flow_stop
    BY <1>9, <1>13, <2>1, Later, Zenon
  <2>5. \A b \in Kept : /\ mem'[b].traffic \in Traffic
                        /\ ~errors' => mem'[b].flow_start <= mem'[b].next_tx
                        /\ mem'[b].flow_stop # 0 => mem'[b].flow_start <= mem'[b].flow_stop
    BY <1>1, <2>4, Zenon DEF Data
  <2>6. ~errors' => \A b \in Kept :
           /\ mem'[b].flow_stop # 0
           /\ mem'[b].traffic.waits = <<>> => mem'[b].next_tx > mem'[b].flow_stop
    BY <1>1, <2>4, Zenon DEF Data
  <2>7. \A b \in Kept : mem'[b].mod_flow # NULL =>
                           mem'[b].flow_stop <= mem'[mem'[b].mod_flow].flow_start
    BY <2>3, <2>4, Zenon
  <2>8. ~errors' /\ now' >= tester_start'
    BY <1>1, Zenon DEF Data
  <2> QED BY <1>12, <2>2, <2>5, <2>6, <2>7, <2>8, Zenon DEF Data
<1>16. Scan'
  BY <1>1, Zenon DEF Scan
<1>17. Sockets'
  <2>1. {mem'[b].flow_id : b \in {c \in Row : mem'[c].send_sock}} =
           {mem[b].flow_id : b \in {c \in Row : mem[c].send_sock}}
    <3>1. \A b \in Row : mem'[b].send_sock = mem[b].send_sock /\ mem'[b].flow_id = mem[b].flow_id
      BY <1>9, <1>10, <1>13, Zenon
    <3> QED BY <3>1, Zenon
  <2>2. \A b \in Row : mem'[b].sequence_nmbr = sent'[mem'[b].flow_id]
    <3>1. \A b \in Row : mem[b].flow_id = mem[target].flow_id => b = target
      BY <1>2, Zenon DEF Lists
    <3>2. \A b \in Row : mem[b].sequence_nmbr = sent[mem[b].flow_id] /\ mem[b].flow_id \in FlowIds
      BY <1>1, <1>13, InUse, Zenon DEF Sockets
    <3>3. sent \in [FlowIds -> Nat]
      BY Zenon DEF Types
    <3>4. /\ sent'[mem[target].flow_id] = sent[mem[target].flow_id] + 1
          /\ \A f \in FlowIds : f # mem[target].flow_id => sent'[f] = sent[f]
      BY <1>1, <1>2, <3>3, Zenon
    <3>5. mem'[target].sequence_nmbr = mem[target].sequence_nmbr + 1 /\ mem'[target].flow_id = mem[target].flow_id
      BY <1>2, <1>6, <1>7, Zenon
    <3>6. \A b \in Row : b # target => mem'[b] = mem[b]
      BY <1>7, <1>13, Zenon
    <3>7. ASSUME NEW b \in Row, b # target PROVE mem'[b].sequence_nmbr = sent'[mem'[b].flow_id]
      <4>1. sent'[mem[b].flow_id] = sent[mem[b].flow_id]
        BY <3>1, <3>2, <3>4, <3>7, Zenon
      <4> QED BY <3>2, <3>6, <3>7, <4>1, Zenon
    <3>8. mem'[target].sequence_nmbr = sent'[mem'[target].flow_id]
      BY <1>2, <3>2, <3>4, <3>5, Zenon
    <3> QED BY <3>7, <3>8, Zenon
  <2>3. Half' = {} /\ Half = {}
    BY <1>1, Zenon DEF Half
  <2> QED BY <1>1, <1>10, <1>12, <1>13, <2>1, <2>2, <2>3, Zenon DEF Sockets
<1>18. Freed'
  <2>1. failures > 0 => failures' > 0
    BY <1>1 DEF Types
  <2> QED BY <1>1, <1>9, <1>12, <2>1, Zenon DEF Freed
<1> QED BY <1>8, <1>12, <1>14, <1>15, <1>16, <1>17, <1>18, Zenon DEF Inv

\* While the configuration is read, the lists are as they look.
LEMMA AtParse ==
    ASSUME Types, Lists, Places, pc = "parse"
    PROVE  /\ First = head /\ Entries = Row /\ Active = Kept
           /\ \A b \in Row : /\ LastBlock(b) \in Walk(b, ModFlow) /\ LastBlock(b) \in Kept
                             /\ mem[LastBlock(b)].mod_flow = NULL
           /\ Row # {} => LastEntry \in Row /\ mem[LastEntry].next = NULL
<1>1. First = head /\ Entries = Row
  BY Zenon DEF First, Entries, Row
<1>2. Active = Kept
  BY <1>1, Zenon DEF Active, Kept, BlocksOf
<1>3. ASSUME NEW b \in Row
      PROVE  /\ LastBlock(b) \in Walk(b, ModFlow) /\ LastBlock(b) \in Kept
             /\ mem[LastBlock(b)].mod_flow = NULL
  <2>1. \E l \in Walk(b, ModFlow) : mem[l].mod_flow = NULL
    BY Zenon DEF Places
  <2>2. LastBlock(b) \in Walk(b, ModFlow) /\ mem[LastBlock(b)].mod_flow = NULL
    BY <2>1, Zenon DEF LastBlock, BlocksOf
  <2> QED BY <2>2, Zenon DEF Kept
<1>4. Row # {} => LastEntry \in Row /\ mem[LastEntry].next = NULL
  BY <1>1, Zenon DEF Places, LastEntry
<1> QED BY <1>1, <1>2, <1>3, <1>4, Zenon

\* A second later is later.
LEMMA AfterStop == \A a, x \in Nat : x + Second \in Nat /\ x + Second > x /\ (a <= x => a <= x + Second)
BY SecondNat

\* The end of the configuration: silent blocks are put after their stop time.
LEMMA EndOfFileStep ==
    ASSUME Inv, EndOfFile PROVE Inv'
<1> SUFFICES ASSUME Types, Lists, Places, Data, Scan, Sockets, Freed PROVE Inv'
  BY Zenon DEF Inv
<1> USE DEF lists, parser, locals, system, Labels, Reading, Removing, Ending
<1> DEFINE silent == {b \in Kept : mem[b].traffic.waits = <<>>}
           later(b) == [mem[b] EXCEPT !.next_tx = mem[b].flow_stop + Second]
<1>2. /\ pc = "parse" /\ pc' \in {"cu_close", "init"}
      /\ errors \in BOOLEAN /\ errors' \in BOOLEAN
      /\ errors \/ (\E b \in Kept : mem[b].flow_stop = 0) => errors'
      /\ errors' => pc' = "cu_close"
      /\ UNCHANGED <<head, done, start_set, commands, tester_start, locals, system, now, failures,
                     signals, sent>>
  <2>1. pc = "parse" /\ Active = Kept
    BY AtParse, Zenon DEF EndOfFile
  <2>2. errors \in BOOLEAN
    BY Zenon DEF Types
  <2> QED BY <2>1, <2>2, Zenon DEF EndOfFile
<1>0. mem' = [b \in Blocks |-> IF b \in silent THEN later(b) ELSE mem[b]]
  <2>1. pc = "parse" /\ Active = Kept
    BY AtParse, Zenon DEF EndOfFile
  <2> QED BY <2>1, Zenon DEF EndOfFile
<1>3. /\ Row \in SUBSET Blocks /\ Kept \in SUBSET Blocks /\ Row \subseteq Kept
      /\ \A b \in Kept : mem[b].mod_flow # NULL => mem[b].mod_flow \in Kept
      /\ \A b \in Kept : mem[b].flow_id \in FlowIds
  BY Shape, InUse, Zenon
<1>4. \A b \in Kept : /\ later(b) \in Structures /\ later(b).next_tx = mem[b].flow_stop + Second
                      /\ later(b).next = mem[b].next /\ later(b).mod_flow = mem[b].mod_flow
                      /\ later(b).flow_id = mem[b].flow_id /\ later(b).traffic = mem[b].traffic
                      /\ later(b).flow_start = mem[b].flow_start
                      /\ later(b).flow_stop = mem[b].flow_stop
                      /\ later(b).list_index = mem[b].list_index
                      /\ later(b).sequence_nmbr = mem[b].sequence_nmbr
                      /\ later(b).send_sock = mem[b].send_sock
  <2> SUFFICES ASSUME NEW b \in Kept
               PROVE  /\ later(b) \in Structures /\ later(b).next_tx = mem[b].flow_stop + Second
                      /\ later(b).next = mem[b].next /\ later(b).mod_flow = mem[b].mod_flow
                      /\ later(b).flow_id = mem[b].flow_id /\ later(b).traffic = mem[b].traffic
                      /\ later(b).flow_start = mem[b].flow_start
                      /\ later(b).flow_stop = mem[b].flow_stop
                      /\ later(b).list_index = mem[b].list_index
                      /\ later(b).sequence_nmbr = mem[b].sequence_nmbr
                      /\ later(b).send_sock = mem[b].send_sock
    BY Zenon
  <2> DEFINE s == mem[b]
             n == mem[b].flow_stop + Second
  <2>1. s \in Structures /\ n \in Nat
    <3>1. mem[b] \in Structures /\ mem[b].flow_stop \in Nat
      BY <1>3, Fields, Zenon DEF Types
    <3> QED BY <3>1, AfterStop, Zenon
  <2> HIDE DEF n, s
  <2> DEFINE r == [s EXCEPT !.next_tx = n]
  <2>2. r \in Structures
    BY <2>1, Zenon DEF Structures
  <2>3. /\ r.next_tx = n /\ r.next = s.next /\ r.mod_flow = s.mod_flow /\ r.flow_id = s.flow_id
        /\ r.traffic = s.traffic /\ r.flow_start = s.flow_start /\ r.flow_stop = s.flow_stop
        /\ r.list_index = s.list_index /\ r.sequence_nmbr = s.sequence_nmbr
    BY <2>1, Zenon DEF Structures
  <2>4. r.send_sock = s.send_sock
    BY <2>1, Zenon DEF Structures
  <2> QED BY <2>2, <2>3, <2>4, Zenon DEF n, s
<1> HIDE DEF later
<1>5. Types'
  <2>1. mem' \in [Blocks -> Structures]
    BY <1>0, <1>3, <1>4, Zenon DEF Types
  <2> QED BY <1>2, <2>1, Zenon DEF Types
<1>6. \A b \in Blocks : /\ mem'[b].next = mem[b].next /\ mem'[b].mod_flow = mem[b].mod_flow
                        /\ mem'[b].flow_id = mem[b].flow_id /\ mem'[b].traffic = mem[b].traffic
                        /\ mem'[b].flow_start = mem[b].flow_start
                        /\ mem'[b].flow_stop = mem[b].flow_stop
                        /\ mem'[b].list_index = mem[b].list_index
                        /\ mem'[b].sequence_nmbr = mem[b].sequence_nmbr
                        /\ mem'[b].send_sock = mem[b].send_sock
                        /\ mem'[b].next_tx = IF b \in silent THEN mem[b].flow_stop + Second
                                             ELSE mem[b].next_tx
                        /\ mem'[b] = mem[b] \/ b \in Kept
  BY <1>0, <1>4, Zenon
<1>7. Steady
  <2>1. First' = First /\ done' = done /\ frees' = frees
    BY <1>2, Zenon DEF First
  <2>2. \A b \in Blocks : mem'[b] = mem[b] \/ mem[b].flow_id # NULL
    BY <1>3, <1>6, NoBlock, ZenonT(60)
  <2> QED BY <1>6, <2>1, <2>2, Zenon DEF Steady
<1>8. /\ Lists'
      /\ Next_' = Next_ /\ ModFlow' = ModFlow /\ Row' = Row /\ Done' = Done /\ Kept' = Kept
  BY <1>7, SteadyLists, Zenon
<1>9. Places'
  BY <1>2, <1>3, <1>6, <1>8, Zenon DEF Places
<1>10. Data'
  <2>1. \A b \in Kept : /\ mem[b].next_tx \in Nat /\ mem[b].flow_stop \in Nat /\ mem[b].flow_start \in Nat
    BY <1>3, Fields, Zenon
  <2>2. errors => errors'
    BY <1>2, Zenon
  <2>3. ~errors' => \A b \in Kept : mem[b].flow_stop # 0
    BY <1>2, Zenon
  <2>4. ASSUME NEW b \in Kept
        PROVE  /\ mem'[b].traffic \in Traffic
               /\ mem'[b].traffic.waits # <<>> => mem'[b].list_index \in 1 .. Len(mem'[b].traffic.waits)
               /\ ~errors' => mem'[b].flow_start <= mem'[b].next_tx
               /\ mem'[b].flow_stop # 0 => mem'[b].flow_start <= mem'[b].flow_stop
               /\ mem'[b].mod_flow # NULL => mem'[b].flow_stop <= mem'[mem'[b].mod_flow].flow_start
    <3>1. /\ mem[b].traffic \in Traffic
          /\ mem[b].traffic.waits # <<>> => mem[b].list_index \in 1 .. Len(mem[b].traffic.waits)
          /\ ~errors => mem[b].flow_start <= mem[b].next_tx
          /\ mem[b].flow_stop # 0 => mem[b].flow_start <= mem[b].flow_stop
          /\ mem[b].mod_flow # NULL => mem[b].flow_stop <= mem[mem[b].mod_flow].flow_start
      BY <2>4, Zenon DEF Data
    <3>2. mem[b].mod_flow # NULL => mem'[mem[b].mod_flow].flow_start = mem[mem[b].mod_flow].flow_start
      BY <1>3, <1>6, <2>4, Zenon
    <3>3. ~errors' => mem'[b].flow_start <= mem'[b].next_tx
      <4>1. CASE b \in silent
        <5>1. mem'[b].next_tx = mem[b].flow_stop + Second
          BY <1>3, <1>6, <2>4, <4>1, Zenon
        <5>2. mem'[b].flow_start = mem[b].flow_start
          BY <1>3, <1>6, <2>4, Zenon
        <5>3. ~errors' => mem[b].flow_start <= mem[b].flow_stop
          BY <2>3, <2>4, <3>1, Zenon
        <5>4. mem[b].flow_start \in Nat /\ mem[b].flow_stop \in Nat
          BY <2>1, <2>4, Zenon
        <5> QED BY <5>1, <5>2, <5>3, <5>4, AfterStop, Zenon
      <4>2. CASE b \notin silent
        BY <1>3, <1>6, <2>2, <2>4, <3>1, <4>2, Zenon
      <4> QED BY <4>1, <4>2, Zenon
    <3> QED BY <1>3, <1>6, <2>4, <3>1, <3>2, <3>3, Zenon
  <2>5. ~errors' =>
           \A b \in Kept : /\ mem'[b].flow_stop # 0
                           /\ mem'[b].traffic.waits = <<>> => mem'[b].next_tx > mem'[b].flow_stop
    <3>1. \A b \in Kept : mem'[b].traffic.waits = <<>> => mem'[b].next_tx = mem'[b].flow_stop + Second
      BY <1>3, <1>6, ZenonT(60)
    <3>2. \A b \in Kept : mem'[b].flow_stop \in Nat /\ mem'[b].flow_stop = mem[b].flow_stop
      BY <1>3, <1>6, <2>1, Zenon
    <3> QED BY <2>3, <3>1, <3>2, AfterStop, Zenon
  <2> QED BY <1>2, <1>8, <2>4, <2>5, Zenon DEF Data
<1>11. Scan'
  BY <1>2, Zenon DEF Scan
<1>12. Sockets'
  <2>1. {mem'[b].flow_id : b \in {c \in Row : mem'[c].send_sock}} =
           {mem[b].flow_id : b \in {c \in Row : mem[c].send_sock}}
    <3>1. \A b \in Row : mem'[b].send_sock = mem[b].send_sock /\ mem'[b].flow_id = mem[b].flow_id
      BY <1>3, <1>6, Zenon
    <3> QED BY <3>1, Zenon
  <2>2. Half' = {} /\ Half = {}
    BY <1>2, Zenon DEF Half
  <2> QED BY <1>2, <1>3, <1>6, <1>8, <2>1, <2>2, ZenonT(60) DEF Sockets
<1>13. Freed'
  BY <1>2, <1>6, <1>8, Zenon DEF Freed
<1> QED BY <1>5, <1>8, <1>9, <1>10, <1>11, <1>12, <1>13, Zenon DEF Inv

\* Two structures that differ in their stop time at most.
Halted(r, s) ==
    /\ r.next = s.next /\ r.mod_flow = s.mod_flow /\ r.flow_id = s.flow_id
    /\ r.flow_start = s.flow_start /\ r.next_tx = s.next_tx /\ r.traffic = s.traffic
    /\ r.list_index = s.list_index /\ r.send_sock = s.send_sock
    /\ r.sequence_nmbr = s.sequence_nmbr

\* A block that is stopped: its stop time is not before its start.
LEMMA StoppedIs ==
    ASSUME Types, NEW x \in Blocks, NEW t \in Nat
    PROVE  /\ Stopped(x, t) \in [Blocks -> Structures]
           /\ \A b \in Blocks \ {x} : Stopped(x, t)[b] = mem[b]
           /\ \A b \in Blocks : Halted(Stopped(x, t)[b], mem[b])
           /\ Stopped(x, t)[x].flow_stop =
                 IF mem[x].flow_stop = 0 THEN StopTime(x, t) ELSE mem[x].flow_stop
           /\ StopTime(x, t) \in Nat /\ mem[x].flow_start <= StopTime(x, t)
<1>1. mem \in [Blocks -> Structures] /\ tester_start \in Nat /\ mem[x].flow_start \in Nat
  BY Fields, Zenon DEF Types
<1>2. StopTime(x, t) \in Nat /\ mem[x].flow_start <= StopTime(x, t)
  BY <1>1 DEF StopTime
<1> DEFINE s == mem[x]
           n == StopTime(x, t)
           r == [s EXCEPT !.flow_stop = n]
<1>3. s \in Structures
  BY <1>1, Zenon
<1> HIDE DEF s, n
<1>4. r \in Structures
  BY <1>2, <1>3, Zenon DEF Structures, n
<1>5. r.flow_stop = n
  BY <1>3, Zenon DEF Structures
<1>6. Halted(r, s) /\ \A b \in Blocks : Halted(mem[b], mem[b])
  BY <1>3, Zenon DEF Structures, Halted
<1>7. CASE mem[x].flow_stop # 0
  <2>1. Stopped(x, t) = mem
    BY <1>7, Zenon DEF Stopped
  <2> QED BY <1>1, <1>2, <1>6, <1>7, <2>1, Zenon
<1>8. CASE mem[x].flow_stop = 0
  <2>1. Stopped(x, t) = [mem EXCEPT ![x] = r]
    BY <1>8, Zenon DEF Stopped, s, n
  <2> HIDE DEF r
  <2>2. Stopped(x, t)[x] = r /\ \A b \in Blocks \ {x} : Stopped(x, t)[b] = mem[b]
    BY <1>1, <2>1, Zenon
  <2>3. Stopped(x, t) \in [Blocks -> Structures]
    BY <1>1, <1>4, <2>1, Zenon
  <2> QED BY <1>2, <1>5, <1>6, <1>8, <2>2, <2>3, Zenon DEF s, n
<1> QED BY <1>7, <1>8, Zenon

\* What the lines that add or stop a block have in common.
Reads ==
    /\ pc = "parse" /\ pc' = pc /\ errors' \in BOOLEAN /\ (errors => errors')
    /\ commands' \in BOOLEAN
    /\ UNCHANGED <<done, start_set, tester_start, flow, prev, target, checked, tmp1, open, buffer,
                   sched, closes, frees, now, failures, signals, sent>>

\* A line that stops the last block of a flow.
LEMMA StoppedStep ==
    ASSUME Inv, NEW e \in Entries, NEW t \in Nat, Reads, head' = head,
           mem' = Stopped(LastBlock(e), t)
    PROVE  Inv'
<1> SUFFICES ASSUME Types, Lists, Places, Data, Scan, Sockets, Freed PROVE Inv'
  BY Zenon DEF Inv
<1> USE DEF Labels, Reading, Removing, Ending
<1> DEFINE last == LastBlock(e)
<1>2. /\ pc = "parse" /\ pc' = pc /\ errors \in BOOLEAN /\ errors' \in BOOLEAN
      /\ (errors => errors') /\ commands' \in BOOLEAN
      /\ head' = head
      /\ UNCHANGED <<done, start_set, tester_start, flow, prev, target, checked, tmp1, open, buffer,
                     sched, closes, frees, now, failures, signals, sent>>
  BY Zenon DEF Types, Reads
<1>3. /\ Row \in SUBSET Blocks /\ Kept \in SUBSET Blocks /\ Row \subseteq Kept
      /\ \A b \in Kept : mem[b].mod_flow # NULL => mem[b].mod_flow \in Kept
      /\ \A b \in Kept : mem[b].flow_id \in FlowIds
  BY Shape, InUse, Zenon
<1>4. last \in Kept /\ mem[last].mod_flow = NULL /\ last \in Blocks /\ mem' = Stopped(last, t)
  BY <1>2, <1>3, AtParse, Zenon
<1> HIDE DEF last
<1>5. /\ mem' \in [Blocks -> Structures]
      /\ \A b \in Blocks \ {last} : mem'[b] = mem[b]
      /\ \A b \in Blocks : Halted(mem'[b], mem[b])
      /\ mem'[last].flow_stop = mem[last].flow_stop \/ mem[last].flow_start <= mem'[last].flow_stop
  <2> DEFINE S == Stopped(last, t)
  <2>1. /\ S \in [Blocks -> Structures] /\ \A b \in Blocks \ {last} : S[b] = mem[b]
        /\ \A b \in Blocks : Halted(S[b], mem[b])
        /\ S[last].flow_stop = IF mem[last].flow_stop = 0 THEN StopTime(last, t) ELSE mem[last].flow_stop
        /\ mem[last].flow_start <= StopTime(last, t)
    BY <1>4, StoppedIs, Zenon
  <2>2. S[last].flow_stop = mem[last].flow_stop \/ mem[last].flow_start <= S[last].flow_stop
    BY <2>1, Zenon
  <2> HIDE DEF S
  <2>3. mem' = S
    BY <1>4, Zenon DEF S
  <2> QED BY <2>1, <2>2, <2>3, Zenon
<1>6. Types'
  BY <1>2, <1>5, Zenon DEF Types
<1>7. Steady
  <2>1. First' = First /\ done' = done /\ frees' = frees
    BY <1>2, Zenon DEF First
  <2>2. \A b \in Blocks : mem'[b] = mem[b] \/ mem[b].flow_id # NULL
    BY <1>3, <1>4, <1>5, NoBlock, Zenon
  <2> QED BY <1>5, <2>1, <2>2, Zenon DEF Steady, Halted
<1>8. /\ Lists'
      /\ Next_' = Next_ /\ ModFlow' = ModFlow /\ Row' = Row /\ Done' = Done /\ Kept' = Kept
  BY <1>7, SteadyLists, Zenon
<1>9. Places'
  <2>1. \A b \in Row : Walk(b, ModFlow) \subseteq Blocks
    BY <1>3, Zenon DEF Kept
  <2>2. \A b \in Blocks : mem'[b].next = mem[b].next /\ mem'[b].mod_flow = mem[b].mod_flow
    BY <1>5, Zenon DEF Halted
  <2>3. /\ \A b \in Row : mem'[b].next = mem[b].next
        /\ \A b \in Kept : mem'[b].next = mem[b].next
        /\ \A b \in Row : \A l \in Walk(b, ModFlow) : mem'[l].mod_flow = mem[l].mod_flow
    BY <1>3, <2>1, <2>2, Zenon
  <2>4. /\ Row' # {} => \E l \in Row' : mem'[l].next = NULL
        /\ \A b \in Row' : \E l \in Walk(b, ModFlow') : mem'[l].mod_flow = NULL
    <3>1. /\ Row # {} => \E l \in Row : mem[l].next = NULL
          /\ \A b \in Row : \E l \in Walk(b, ModFlow) : mem[l].mod_flow = NULL
      BY <1>2, Zenon DEF Places
    <3>2. /\ Row # {} => \E l \in Row : mem'[l].next = NULL
          /\ \A b \in Row : \E l \in Walk(b, ModFlow) : mem'[l].mod_flow = NULL
      BY <2>3, <3>1, Zenon
    <3> QED BY <1>8, <3>2, Zenon
  <2> QED BY <1>2, <1>8, <2>3, <2>4, Zenon DEF Places
<1>10. Data'
  <2>1. ASSUME NEW b \in Kept
        PROVE  /\ mem'[b].traffic \in Traffic
               /\ mem'[b].traffic.waits # <<>> => mem'[b].list_index \in 1 .. Len(mem'[b].traffic.waits)
               /\ ~errors' => mem'[b].flow_start <= mem'[b].next_tx
               /\ mem'[b].flow_stop # 0 => mem'[b].flow_start <= mem'[b].flow_stop
               /\ mem'[b].mod_flow # NULL => mem'[b].flow_stop <= mem'[mem'[b].mod_flow].flow_start
    <3>1. b \in Blocks /\ Halted(mem'[b], mem[b])
      BY <1>3, <1>5, <2>1, Zenon
    <3>2. /\ mem[b].traffic \in Traffic
          /\ mem[b].traffic.waits # <<>> => mem[b].list_index \in 1 .. Len(mem[b].traffic.waits)
          /\ ~errors' => mem[b].flow_start <= mem[b].next_tx
          /\ mem[b].flow_stop # 0 => mem[b].flow_start <= mem[b].flow_stop
          /\ mem[b].mod_flow # NULL => mem[b].flow_stop <= mem[mem[b].mod_flow].flow_start
      BY <1>2, <2>1, Zenon DEF Data
    <3>3. mem'[b].flow_stop # 0 => mem'[b].flow_start <= mem'[b].flow_stop
      BY <1>5, <3>1, <3>2, ZenonT(60) DEF Halted
    <3>4. mem'[b].mod_flow # NULL => mem'[b].flow_stop <= mem'[mem'[b].mod_flow].flow_start
      <4>1. ASSUME mem[b].mod_flow # NULL
            PROVE  /\ mem'[b].flow_stop = mem[b].flow_stop
                   /\ mem'[mem[b].mod_flow].flow_start = mem[mem[b].mod_flow].flow_start
        BY <1>3, <1>4, <1>5, <2>1, <3>1, <4>1, Zenon DEF Halted
      <4>2. mem'[b].mod_flow = mem[b].mod_flow
        BY <3>1, Zenon DEF Halted
      <4> QED BY <3>2, <4>1, <4>2, Zenon
    <3> QED BY <3>1, <3>2, <3>3, <3>4, Zenon DEF Halted
  <2> QED BY <1>2, <1>8, <2>1, Zenon DEF Data
<1>11. Scan'
  BY <1>2, Zenon DEF Scan
<1>12. Sockets'
  <2>1. {mem'[b].flow_id : b \in {c \in Row : mem'[c].send_sock}} =
           {mem[b].flow_id : b \in {c \in Row : mem[c].send_sock}}
    <3>1. \A b \in Row : mem'[b].send_sock = mem[b].send_sock /\ mem'[b].flow_id = mem[b].flow_id
      BY <1>3, <1>5, Zenon DEF Halted
    <3> QED BY <3>1, ZenonT(60)
  <2>2. Half' = {} /\ Half = {}
    BY <1>2, Zenon DEF Half
  <2>3. \A b \in Kept : /\ mem'[b].send_sock = mem[b].send_sock /\ mem'[b].flow_id = mem[b].flow_id
                        /\ mem'[b].sequence_nmbr = mem[b].sequence_nmbr
    BY <1>3, <1>5, Zenon DEF Halted
  <2> QED BY <1>2, <1>3, <1>8, <2>1, <2>2, <2>3, Zenon DEF Sockets
<1>13. Freed'
  <2>1. \A b \in Blocks : mem'[b].flow_id = mem[b].flow_id
    BY <1>5, Zenon DEF Halted
  <2> QED BY <1>2, <1>8, <2>1, Zenon DEF Freed
<1> QED BY <1>6, <1>8, <1>9, <1>10, <1>11, <1>12, <1>13, Zenon DEF Inv

\* A line OFF.
LEMMA flow_offStep ==
    ASSUME Inv, NEW e \in Entries, NEW t \in OffTimes, flow_off(e, t) PROVE Inv'
<1>1. t \in Nat /\ errors \in BOOLEAN /\ commands \in BOOLEAN
  BY RudeAssumption, Zenon DEF Inv, Types
<1>2. Reads
  BY <1>1, Zenon DEF flow_off, Line, Count, Reads, locals, system
<1>3. mem' = Stopped(LastBlock(e), t) /\ head' = head
  BY Zenon DEF flow_off
<1> QED BY <1>1, <1>2, <1>3, StoppedStep, Zenon

\* A structure for a block of flow id that begins at n.
Fresh(r, id, n, tr) ==
    /\ r.next = NULL /\ r.mod_flow = NULL /\ r.flow_id = id
    /\ r.flow_start = n /\ r.next_tx = n /\ r.flow_stop = 0 /\ r.traffic = tr
    /\ r.list_index = 1 /\ r.sequence_nmbr = 0 /\ r.send_sock = FALSE

\* The structure of the block that a line adds.
LEMMA NewBlockIs ==
    ASSUME Types, NEW id \in FlowIds, NEW t \in Nat, NEW tr \in Traffic
    PROVE  /\ NewBlock(id, t, tr) \in Structures
           /\ Fresh(NewBlock(id, t, tr), id, tester_start + t, tr)
<1>1. tester_start + t \in Nat
  BY DEF Types
<1> DEFINE n == tester_start + t
           z1 == [Zero EXCEPT !.flow_id = id]
           z2 == [z1 EXCEPT !.flow_start = n]
           z3 == [z2 EXCEPT !.next_tx = n]
           z4 == [z3 EXCEPT !.traffic = tr]
           r == NewBlock(id, t, tr)
<1>2. r = z4
  BY Zenon DEF NewBlock
<1>3. Zero \in Structures
  BY Zenon DEF Zero, Structures, Addresses
<1>4. Fresh(r, id, n, tr)
  BY Zenon DEF NewBlock, Zero, Fresh
<1> HIDE DEF n, r
<1>5. z1 \in Structures
  BY <1>3, Zenon DEF Structures
<1> HIDE DEF z1
<1>6. z2 \in Structures
  BY <1>1, <1>5, Zenon DEF Structures, n
<1> HIDE DEF z2
<1>7. z3 \in Structures
  BY <1>1, <1>6, Zenon DEF Structures, n
<1> HIDE DEF z3
<1>8. z4 \in Structures
  BY <1>7, Zenon DEF Structures
<1> QED BY <1>2, <1>4, <1>8, Zenon DEF r, n

\* A block that is not in use is on no list, and filled with zeros.
LEMMA UnusedIs ==
    ASSUME Types, Lists, NEW x \in Unused
    PROVE  /\ x \in Blocks /\ x \notin Kept /\ x \notin Done /\ frees[x] = 0
           /\ mem[x].next = NULL /\ mem[x].mod_flow = NULL /\ mem[x].flow_id = NULL
BY DEF Unused, Zero, Lists

\* The traffic of a new block.
LEMMA NewTraffic ==
    ASSUME Timed, NEW tr \in Traffic, tr.waits # <<>>
    PROVE  1 \in 1 .. Len(tr.waits)
BY DEF Timed

\* A block joins the active list, for flow id, to begin at n.
Joins(new, id, n, tr) ==
    /\ new \in Blocks \ Kept /\ frees[new] = 0 /\ id \in FlowIds /\ n \in Nat /\ tr \in Traffic
    /\ mem' \in [Blocks -> Structures] /\ Fresh(mem'[new], id, n, tr)
    /\ \A b \in Blocks \ {new} :
          /\ mem'[b].flow_id = mem[b].flow_id /\ mem'[b].flow_start = mem[b].flow_start
          /\ mem'[b].next_tx = mem[b].next_tx /\ mem'[b].traffic = mem[b].traffic
          /\ mem'[b].list_index = mem[b].list_index /\ mem'[b].sequence_nmbr = mem[b].sequence_nmbr
          /\ mem'[b].send_sock = mem[b].send_sock
          /\ mem'[b] = mem[b] \/ b \in Kept
    /\ Kept' = Kept \cup {new} /\ Done = {} /\ Done' = {} /\ (Row' = Row \/ Row' = Row \cup {new})

\* What ON and MODIFY have in common when a block joins.
LEMMA JoinStep ==
    ASSUME Timed, Types, Lists, Data, Scan, Sockets, Freed, Reads, head' \in Addresses,
           NEW new, NEW id, NEW n, NEW tr, Joins(new, id, n, tr)
    PROVE  /\ Types' /\ Scan' /\ Sockets' /\ Freed'
           /\ \A b \in Kept' \cup Done' : mem'[b].flow_id # NULL /\ frees'[b] = 0
           /\ \A b \in Blocks : mem'[b].flow_id = NULL => mem'[b] = Zero
           /\ \A b \in Kept' :
                 /\ mem'[b].traffic \in Traffic
                 /\ mem'[b].traffic.waits # <<>> => mem'[b].list_index \in 1 .. Len(mem'[b].traffic.waits)
                 /\ ~errors' => mem'[b].flow_start <= mem'[b].next_tx
<1> USE DEF Labels, Reading, Removing, Ending
<1>1. /\ pc = "parse" /\ pc' = pc /\ errors' \in BOOLEAN /\ (errors => errors')
      /\ commands' \in BOOLEAN
      /\ UNCHANGED <<done, start_set, tester_start, flow, prev, target, checked, tmp1, open, buffer,
                     sched, closes, frees, now, failures, signals, sent>>
  BY Zenon DEF Reads
<1>2. /\ new \in Blocks /\ new \notin Kept /\ frees[new] = 0 /\ id \in FlowIds /\ n \in Nat
      /\ tr \in Traffic /\ mem' \in [Blocks -> Structures]
      /\ Kept' = Kept \cup {new} /\ Done = {} /\ Done' = {} /\ (Row' = Row \/ Row' = Row \cup {new})
  BY Zenon DEF Joins
<1>3. /\ mem'[new].flow_id = id /\ mem'[new].flow_start = n /\ mem'[new].next_tx = n
      /\ mem'[new].traffic = tr /\ mem'[new].list_index = 1 /\ mem'[new].sequence_nmbr = 0
      /\ ~mem'[new].send_sock
  BY Zenon DEF Joins, Fresh
<1>4. \A b \in Blocks : b # new =>
          /\ mem'[b].flow_id = mem[b].flow_id /\ mem'[b].flow_start = mem[b].flow_start
          /\ mem'[b].next_tx = mem[b].next_tx /\ mem'[b].traffic = mem[b].traffic
          /\ mem'[b].list_index = mem[b].list_index /\ mem'[b].sequence_nmbr = mem[b].sequence_nmbr
          /\ mem'[b].send_sock = mem[b].send_sock
          /\ mem'[b] = mem[b] \/ b \in Kept
  BY Zenon DEF Joins
<1>5. /\ Row \subseteq Kept
      /\ \A b \in Kept : b \in Blocks /\ b # new
  BY <1>2, Shape, Zenon
<1>6. Types'
  BY <1>1, <1>2, Zenon DEF Types
<1>7. Scan'
  BY <1>1, Zenon DEF Scan
<1>8. Sockets'
  <2>1. {c \in Row' : mem'[c].send_sock} = {c \in Row : mem[c].send_sock}
    BY <1>2, <1>3, <1>4, <1>5, Zenon
  <2>2. \A b \in {c \in Row : mem[c].send_sock} : mem'[b].flow_id = mem[b].flow_id
    BY <1>4, <1>5, Zenon
  <2>3. {mem'[b].flow_id : b \in {c \in Row' : mem'[c].send_sock}} =
           {mem[b].flow_id : b \in {c \in Row : mem[c].send_sock}}
    BY <2>1, <2>2, Zenon
  <2>4. \A b \in Kept' \ Row' : mem'[b].send_sock => b \in Kept \ Row /\ mem[b].send_sock
    BY <1>2, <1>3, <1>4, <1>5, Zenon
  <2>5. \A b \in Row' : mem'[b].sequence_nmbr = sent'[mem'[b].flow_id]
    <3>1. \A b \in Row : mem[b].sequence_nmbr = sent[mem[b].flow_id]
      BY <1>1, Zenon DEF Sockets
    <3>2. sent[id] = 0
      BY <1>1, <1>2, Zenon DEF Sockets
    <3>3. \A b \in Row : mem'[b].sequence_nmbr = sent[mem'[b].flow_id]
      BY <1>4, <1>5, <3>1, Zenon
    <3>4. mem'[new].sequence_nmbr = sent[mem'[new].flow_id]
      BY <1>3, <3>2, Zenon
    <3> QED BY <1>1, <1>2, <3>3, <3>4, Zenon
  <2>6. Half' = {} /\ Half = {}
    BY <1>1, Zenon DEF Half
  <2> QED BY <1>1, <2>3, <2>4, <2>5, <2>6, Zenon DEF Sockets
<1>9. Freed'
  <2>1. mem'[new].flow_id # NULL /\ new \in Kept' /\ frees'[new] = 0
    BY <1>1, <1>2, <1>3, NoBlock, Zenon
  <2> QED BY <1>1, <1>2, <1>4, <2>1, Zenon DEF Freed
<1>10. \A b \in Kept' \cup Done' : mem'[b].flow_id # NULL /\ frees'[b] = 0
  <2>1. \A b \in Kept : mem[b].flow_id # NULL /\ frees[b] = 0
    BY Zenon DEF Lists
  <2>2. mem'[new].flow_id # NULL /\ frees'[new] = 0
    BY <1>1, <1>2, <1>3, NoBlock, Zenon
  <2>3. \A b \in Kept : mem'[b].flow_id # NULL /\ frees'[b] = 0
    BY <1>1, <1>4, <1>5, <2>1, Zenon
  <2> QED BY <1>2, <2>2, <2>3, Zenon
<1>11. \A b \in Blocks : mem'[b].flow_id = NULL => mem'[b] = Zero
  <2>1. /\ \A b \in Kept : mem[b].flow_id # NULL
        /\ \A b \in Blocks : mem[b].flow_id = NULL => mem[b] = Zero
    BY Zenon DEF Lists
  <2>2. mem'[new].flow_id # NULL
    BY <1>2, <1>3, NoBlock, Zenon
  <2>3. ASSUME NEW b \in Blocks, b # new, mem'[b].flow_id = NULL PROVE mem'[b] = Zero
    <3>1. mem[b].flow_id = NULL /\ (mem'[b] = mem[b] \/ b \in Kept)
      BY <1>4, <2>3, Zenon
    <3>2. mem[b] = Zero /\ b \notin Kept
      BY <2>1, <3>1, Zenon
    <3> QED BY <3>1, <3>2, Zenon
  <2> QED BY <2>2, <2>3, Zenon
<1>12. ASSUME NEW b \in Kept'
       PROVE  /\ mem'[b].traffic \in Traffic
              /\ mem'[b].traffic.waits # <<>> => mem'[b].list_index \in 1 .. Len(mem'[b].traffic.waits)
              /\ ~errors' => mem'[b].flow_start <= mem'[b].next_tx
  <2>1. CASE b = new
    <3>1. n <= n
      BY <1>2
    <3> QED BY <1>2, <1>3, <2>1, <3>1, NewTraffic, Zenon
  <2>2. CASE b # new
    BY <1>1, <1>2, <1>4, <1>5, <1>12, <2>2, Zenon DEF Data
  <2> QED BY <2>1, <2>2, Zenon
<1> QED BY <1>6, <1>7, <1>8, <1>9, <1>10, <1>11, <1>12, Zenon

\* A line ON.
LEMMA flow_onStep ==
    ASSUME Timed, Inv, NEW id \in NewIds, NEW t \in OnTimes, NEW tr \in Traffic, NEW new \in Unused,
           flow_on(id, t, tr, new)
    PROVE  Inv'
<1> SUFFICES ASSUME Types, Lists, Places, Data, Scan, Sockets, Freed PROVE Inv'
  BY Zenon DEF Inv
<1> USE DEF Labels, Reading, Removing, Ending
<1> DEFINE r == NewBlock(id, t, tr)
           link == IF head = NULL THEN Next_ ELSE [Next_ EXCEPT ![LastEntry] = new]
<1>2. /\ pc = "parse" /\ pc' = pc /\ t \in Nat /\ id \in FlowIds /\ Found(id) = {}
      /\ errors' = errors /\ done' = done /\ frees' = frees /\ signals' = signals /\ buffer' = buffer
      /\ tester_start' = tester_start /\ Reads
  <2>1. errors \in BOOLEAN /\ commands \in BOOLEAN /\ t \in Nat /\ id \in FlowIds
    BY RudeAssumption, Zenon DEF Types, NewIds
  <2>2. Reads /\ errors' = errors /\ Found(id) = {}
    BY <2>1, Zenon DEF flow_on, Line, Count, Reads, locals, system
  <2> QED BY <2>1, <2>2, Zenon DEF Reads
<1>3. head' = IF head = NULL THEN new ELSE head
  BY Zenon DEF flow_on
<1>4. /\ First = head /\ Entries = Row /\ (Row # {} => LastEntry \in Row /\ mem[LastEntry].next = NULL)
      /\ done = NULL /\ Done = {}
  BY <1>2, AtParse, Shape, Zenon DEF Places
<1>5. /\ Next_ \in Links /\ ModFlow \in Links
      /\ \A b \in Blocks : Next_[b] = mem[b].next /\ ModFlow[b] = mem[b].mod_flow
      /\ head \in Addresses
      /\ Row \in SUBSET Blocks /\ Kept \in SUBSET Blocks /\ Row \subseteq Kept
      /\ Kept = All(Row, ModFlow)
      /\ IF head = NULL THEN Row = {} ELSE head \in Row
      /\ \A b \in Kept : mem[b].mod_flow # NULL => mem[b].mod_flow \in Kept
      /\ \A b \in Row : mem[b].next # NULL => mem[b].next \in Row
  BY <1>4, Shape, Zenon
<1>6. /\ new \in Blocks /\ new \notin Kept /\ frees[new] = 0
      /\ mem[new].next = NULL /\ mem[new].mod_flow = NULL /\ mem[new].flow_id = NULL
  BY UnusedIs, Zenon
<1>7. r \in Structures /\ Fresh(r, id, tester_start + t, tr)
  <2>1. t \in Nat /\ id \in FlowIds
    BY <1>2, Zenon
  <2> QED BY <2>1, NewBlockIs, Zenon
<1> HIDE DEF r
<1>8. /\ mem' \in [Blocks -> Structures] /\ mem'[new] = r
      /\ \A b \in Blocks : b # new => Moved(mem'[b], mem[b]) /\ (mem'[b] = mem[b] \/ b \in Row)
      /\ \A b \in Blocks : mem'[b].next = link[b]
  <2>1. mem \in [Blocks -> Structures]
    BY Zenon DEF Types
  <2>2. CASE head = NULL
    <3>1. mem' \in [Blocks -> Structures] /\ mem'[new] = r /\ \A b \in Blocks \ {new} : mem'[b] = mem[b]
      <4>1. mem' = [mem EXCEPT ![new] = r]
        BY <2>2, Zenon DEF flow_on, r
      <4> QED BY <1>6, <1>7, <2>1, <4>1, Zenon
    <3>2. \A b \in Blocks : b # new => Moved(mem'[b], mem[b])
      BY <3>1, Zenon DEF Moved
    <3>3. \A b \in Blocks : mem'[b].next = link[b]
      BY <1>5, <1>6, <1>7, <2>2, <3>1, Zenon DEF Fresh
    <3> QED BY <3>1, <3>2, <3>3, Zenon
  <2>3. CASE head # NULL
    <3> DEFINE l == LastEntry
               q == [mem[l] EXCEPT !.next = new]
    <3>1. l \in Row /\ l \in Blocks /\ l # new /\ mem[l] \in Structures
      BY <1>4, <1>5, <1>6, <2>1, <2>3, Zenon
    <3> HIDE DEF l
    <3>2. q \in Structures
      BY <1>6, <3>1, Zenon DEF Structures, Addresses
    <3>3. /\ q.next = new /\ q.mod_flow = mem[l].mod_flow /\ q.flow_id = mem[l].flow_id
          /\ q.flow_start = mem[l].flow_start /\ q.flow_stop = mem[l].flow_stop
          /\ q.next_tx = mem[l].next_tx /\ q.traffic = mem[l].traffic
          /\ q.list_index = mem[l].list_index /\ q.sequence_nmbr = mem[l].sequence_nmbr
          /\ q.send_sock = mem[l].send_sock
      BY <3>1, Zenon DEF Structures
    <3>4. mem' = [[mem EXCEPT ![new] = r] EXCEPT ![l] = q]
      <4>1. mem' = [mem EXCEPT ![new] = r, ![l].next = new]
        BY <2>3, Zenon DEF flow_on, r, l
      <4> QED BY <1>6, <2>1, <3>1, <4>1, Zenon
    <3> HIDE DEF q
    <3>5. /\ mem' \in [Blocks -> Structures] /\ mem'[new] = r /\ mem'[l] = q
          /\ \A b \in Blocks \ {new, l} : mem'[b] = mem[b]
      BY <1>6, <1>7, <2>1, <3>1, <3>2, <3>4, Zenon DEF Fresh
    <3>6. link = [Next_ EXCEPT ![l] = new]
      BY <2>3, Zenon DEF l
    <3>7. \A b \in Blocks : link[b] = IF b = l THEN new ELSE mem[b].next
      BY <1>5, <3>1, <3>6, Zenon DEF Links
    <3> HIDE DEF link
    <3>8. ASSUME NEW b \in Blocks, b # new PROVE Moved(mem'[b], mem[b]) /\ (mem'[b] = mem[b] \/ b \in Row)
      BY <3>1, <3>3, <3>5, <3>8, Zenon DEF Moved
    <3>9. \A b \in Blocks : mem'[b].next = link[b]
      BY <1>6, <1>7, <3>1, <3>3, <3>5, <3>7, ZenonT(60) DEF Fresh
    <3> QED BY <3>5, <3>8, <3>9, Zenon
  <2> QED BY <2>2, <2>3, Zenon
<1>9. link \in Links
  BY <1>4, <1>5, <1>6, Zenon DEF Links, Addresses
<1>10. Next_' = link /\ ModFlow' = ModFlow
  <2>1. Next_' = [b \in Blocks |-> link[b]]
    BY <1>8, Zenon DEF Next_
  <2>2. ModFlow' = [b \in Blocks |-> ModFlow[b]]
    <3>1. \A b \in Blocks : mem'[b].mod_flow = ModFlow[b]
      BY <1>5, <1>6, <1>7, <1>8, ZenonT(60) DEF Fresh, Moved
    <3> QED BY <3>1, Zenon DEF ModFlow
  <2> HIDE DEF link
  <2> QED BY <1>5, <1>9, <2>1, <2>2, Zenon DEF Links
<1>11. First' = head' /\ First' \in Blocks /\ Row' = Row \cup {new} /\ Simple(First', Next_')
  <2>1. First' = head' /\ Row' = Walk(head', link)
    BY <1>2, <1>10, Zenon DEF First, Row
  <2>2. CASE head = NULL
    <3>1. head' = new /\ link = Next_ /\ Row = {} /\ Next_[new] = NULL
      BY <1>3, <1>5, <1>6, <2>2, Zenon
    <3>2. Walk(new, Next_) = {new} /\ Simple(new, Next_)
      BY <1>5, <1>6, <3>1, Alone, Zenon
    <3> HIDE DEF link
    <3> QED BY <1>6, <1>10, <2>1, <3>1, <3>2, Zenon
  <2>3. CASE head # NULL
    <3>1. /\ head' = head /\ head \in Addresses /\ Simple(head, Next_) /\ Row = Walk(head, Next_)
          /\ LastEntry \in Walk(head, Next_) /\ Next_[LastEntry] = NULL
          /\ new \in Blocks \ Walk(head, Next_) /\ Next_[new] = NULL
      BY <1>3, <1>4, <1>5, <1>6, <2>3, Zenon DEF Lists, Row
    <3>2. Walk(head, link) = Walk(head, Next_) \cup {new} /\ Simple(head, link)
      <4>1. link = [Next_ EXCEPT ![LastEntry] = new] /\ Next_ \in Links
        BY <1>5, <2>3, Zenon
      <4> HIDE DEF link
      <4>2. /\ Walk(head, [Next_ EXCEPT ![LastEntry] = new]) = Walk(head, Next_) \cup {new}
            /\ Simple(head, [Next_ EXCEPT ![LastEntry] = new])
        BY <3>1, <4>1, AtTheEnd, Zenon
      <4> QED BY <4>1, <4>2, Zenon
    <3> HIDE DEF link
    <3> QED BY <1>5, <1>10, <2>1, <2>3, <3>1, <3>2, Zenon
  <2> QED BY <2>2, <2>3, Zenon
<1>12. Kept' = Kept \cup {new} /\ Done' = {}
  <2>1. Kept' = All(Row \cup {new}, ModFlow)
    BY <1>10, <1>11, Zenon DEF Kept, All
  <2>2. Done' = {}
    BY <1>2, <1>4, WalkEmpty, Zenon DEF Done
  <2>3. ModFlow[new] = NULL /\ ModFlow \in Links /\ Row \in SUBSET Blocks /\ new \in Blocks
    BY <1>5, <1>6, Zenon
  <2>4. All(Row \cup {new}, ModFlow) = All(Row, ModFlow) \cup {new}
    BY <2>3, AllNew, ZenonT(60)
  <2> QED BY <1>5, <2>1, <2>2, <2>4, Zenon
<1> HIDE DEF link
<1>13. /\ Types' /\ Scan' /\ Sockets' /\ Freed'
       /\ \A b \in Kept' \cup Done' : mem'[b].flow_id # NULL /\ frees'[b] = 0
       /\ \A b \in Blocks : mem'[b].flow_id = NULL => mem'[b] = Zero
       /\ \A b \in Kept' :
             /\ mem'[b].traffic \in Traffic
             /\ mem'[b].traffic.waits # <<>> => mem'[b].list_index \in 1 .. Len(mem'[b].traffic.waits)
             /\ ~errors' => mem'[b].flow_start <= mem'[b].next_tx
  <2>1. head' \in Addresses
    BY <1>3, <1>5, <1>6, Zenon DEF Addresses
  <2>2. tester_start + t \in Nat
    BY <1>2 DEF Types
  <2>3. \A b \in Blocks \ {new} :
          /\ mem'[b].flow_id = mem[b].flow_id /\ mem'[b].flow_start = mem[b].flow_start
          /\ mem'[b].next_tx = mem[b].next_tx /\ mem'[b].traffic = mem[b].traffic
          /\ mem'[b].list_index = mem[b].list_index /\ mem'[b].sequence_nmbr = mem[b].sequence_nmbr
          /\ mem'[b].send_sock = mem[b].send_sock
          /\ mem'[b] = mem[b] \/ b \in Kept
    BY <1>5, <1>8, Zenon DEF Moved
  <2>4. Joins(new, id, tester_start + t, tr)
    BY <1>2, <1>4, <1>6, <1>7, <1>8, <1>11, <1>12, <2>2, <2>3, Zenon DEF Joins
  <2> QED BY <1>2, <2>1, <2>4, JoinStep, Zenon
<1>14. /\ \A b \in Row : mem[b].flow_id # id
       /\ \A b \in Kept : b # new /\ mem[b].flow_id # NULL /\ frees[b] = 0
  BY <1>4, <1>2, <1>6, Zenon DEF Found, Lists
<1>15. Lists'
  <2>1. Simple(First', Next_') /\ Simple(done', Next_')
    <3>1. Walk(done', Next_') = {}
      BY <1>2, <1>4, WalkEmpty, Zenon
    <3> QED BY <1>11, <3>1, Zenon DEF Simple
  <2>2. \A b \in Kept : mem'[b].mod_flow = mem[b].mod_flow /\ mem'[b].flow_id = mem[b].flow_id
    BY <1>5, <1>8, <1>14, Zenon DEF Moved
  <2>3. mem'[new].mod_flow = NULL /\ mem'[new].flow_id = id
    BY <1>7, <1>8, Zenon DEF Fresh
  <2>4. ASSUME NEW b \in Kept', mem'[b].mod_flow # NULL
        PROVE  /\ b \in Kept /\ mem'[b].mod_flow = mem[b].mod_flow /\ mem[b].mod_flow \in Kept \ Row
               /\ mem'[mem[b].mod_flow].next = NULL
               /\ mem'[mem[b].mod_flow].flow_id = mem[mem[b].mod_flow].flow_id
    <3>1. b \in Kept /\ mem'[b].mod_flow = mem[b].mod_flow
      BY <1>12, <2>2, <2>3, <2>4, Zenon
    <3>2. mem[b].mod_flow \in Kept \ Row
      BY <1>5, <2>4, <3>1, Zenon DEF Lists
    <3>3. mem'[mem[b].mod_flow] = mem[mem[b].mod_flow] /\ mem[mem[b].mod_flow].next = NULL
      BY <1>2, <1>5, <1>8, <1>14, <3>2, Zenon DEF Places
    <3> QED BY <3>1, <3>2, <3>3, Zenon
  <2>5. \A b \in Kept' : mem'[b].mod_flow \notin Row'
    <3>1. ASSUME NEW b \in Kept' PROVE mem'[b].mod_flow \notin Row'
      <4>1. CASE mem'[b].mod_flow = NULL
        BY <1>5, <1>6, <1>11, <4>1, NoBlock, ZenonT(60)
      <4>2. CASE mem'[b].mod_flow # NULL
        BY <1>11, <1>14, <2>4, <3>1, <4>2, Zenon
      <4> QED BY <4>1, <4>2, Zenon
    <3> QED BY <3>1, Zenon
  <2>6. \A b \in Kept' : mem'[b].mod_flow # NULL =>
           /\ mem'[mem'[b].mod_flow].flow_id = mem'[b].flow_id
           /\ mem'[mem'[b].mod_flow].next = NULL
    <3>1. \A b \in Kept : mem[b].mod_flow # NULL => mem[mem[b].mod_flow].flow_id = mem[b].flow_id
      BY Zenon DEF Lists
    <3> QED BY <2>2, <2>4, <3>1, ZenonT(60)
  <2>7. ASSUME NEW b \in Kept', NEW c \in Kept', mem'[b].mod_flow = mem'[c].mod_flow,
               mem'[b].mod_flow # NULL
        PROVE  b = c
    <3>1. b \in Kept /\ c \in Kept /\ mem[b].mod_flow = mem[c].mod_flow /\ mem[b].mod_flow # NULL
      BY <2>4, <2>7, Zenon
    <3> QED BY <3>1, Zenon DEF Lists
  <2>8. ASSUME NEW b \in Row', NEW c \in Row', mem'[b].flow_id = mem'[c].flow_id PROVE b = c
    <3>1. \A x, y \in Row : mem[x].flow_id = mem[y].flow_id => x = y
      BY Zenon DEF Lists
    <3>2. \A x \in Row : mem'[x].flow_id = mem[x].flow_id /\ mem'[x].flow_id # id
      BY <1>5, <1>14, <2>2, Zenon
    <3> QED BY <1>11, <2>3, <2>8, <3>1, <3>2, Zenon
  <2>9. Kept' \cap Done' = {}
    BY <1>12, Zenon
  <2> QED BY <1>13, <2>1, <2>5, <2>6, <2>7, <2>8, <2>9, Zenon DEF Lists
<1>16. Places'
  <2>1. mem'[new].next = NULL
    BY <1>7, <1>8, Zenon DEF Fresh
  <2>2. \A b \in Row' : \E l \in Walk(b, ModFlow') : mem'[l].mod_flow = NULL
    <3>1. \A b \in Row : Walk(b, ModFlow) \subseteq Kept
      BY Zenon DEF Kept
    <3>2. \A b \in Row : \E l \in Walk(b, ModFlow) : mem[l].mod_flow = NULL
      BY <1>2, Zenon DEF Places
    <3>3. new \in Walk(new, ModFlow)
      BY <1>5, <1>6, Alone, Zenon
    <3>4. \A l \in Kept : mem'[l].mod_flow = mem[l].mod_flow
      BY <1>5, <1>8, <1>14, Zenon DEF Moved
    <3>5. mem'[new].mod_flow = NULL
      BY <1>7, <1>8, Zenon DEF Fresh
    <3>6. \A b \in Row : \E l \in Walk(b, ModFlow) : mem'[l].mod_flow = NULL
      BY <3>1, <3>2, <3>4, Zenon
    <3> QED BY <1>10, <1>11, <3>3, <3>5, <3>6, Zenon
  <2>3. \A b \in Kept' \ Row' : mem'[b].next = NULL
    <3>1. \A b \in Kept \ Row : mem'[b] = mem[b] /\ mem[b].next = NULL
      BY <1>2, <1>5, <1>8, <1>14, Zenon DEF Places
    <3> QED BY <1>11, <1>12, <3>1, Zenon
  <2>4. signals' = 0 \/ ~(signals' > 0)
    BY <1>2, Zenon DEF Places
  <2>5. new \in Row'
    BY <1>11, Zenon
  <2> QED BY <1>2, <2>1, <2>2, <2>3, <2>4, <2>5, Zenon DEF Places
<1>17. Data'
  <2>1. ASSUME NEW b \in Kept'
        PROVE  /\ mem'[b].flow_stop # 0 => mem'[b].flow_start <= mem'[b].flow_stop
               /\ mem'[b].mod_flow # NULL => mem'[b].flow_stop <= mem'[mem'[b].mod_flow].flow_start
    <3>1. CASE b = new
      BY <1>7, <1>8, <3>1, Zenon DEF Fresh
    <3>2. CASE b # new
      <4>1. b \in Kept /\ b \in Blocks /\ Moved(mem'[b], mem[b])
        BY <1>5, <1>8, <1>12, <2>1, <3>2, Zenon
      <4>2. /\ mem[b].flow_stop # 0 => mem[b].flow_start <= mem[b].flow_stop
            /\ mem[b].mod_flow # NULL => mem[b].flow_stop <= mem[mem[b].mod_flow].flow_start
        BY <4>1, Zenon DEF Data
      <4>3. mem[b].mod_flow # NULL => mem'[mem[b].mod_flow].flow_start = mem[mem[b].mod_flow].flow_start
        BY <1>5, <1>8, <1>14, <4>1, Zenon DEF Moved
      <4> QED BY <4>1, <4>2, <4>3, Zenon DEF Moved
    <3> QED BY <3>1, <3>2, Zenon
  <2> QED BY <1>2, <1>13, <2>1, Zenon DEF Data
<1> QED BY <1>13, <1>15, <1>16, <1>17, Zenon DEF Inv

\* The blocks of a flow have the identifier of the first.
LEMMA SameFlow ==
    ASSUME Types, Lists, NEW e \in Row, NEW x \in Walk(e, ModFlow)
    PROVE  mem[x].flow_id = mem[e].flow_id
<1> DEFINE A == {c \in Kept : mem[c].flow_id = mem[e].flow_id}
<1>1. /\ Row \subseteq Kept /\ Kept \in SUBSET Blocks
      /\ \A b \in Blocks : ModFlow[b] = mem[b].mod_flow
      /\ \A b \in Kept : mem[b].mod_flow # NULL => mem[b].mod_flow \in Kept
  BY Shape, Zenon
<1>2. A \in SUBSET Blocks /\ Leads(e, ModFlow, A)
  BY <1>1 DEF Lists, Leads
<1> HIDE DEF A
<1>3. Walk(e, ModFlow) \subseteq A
  BY <1>2, WalkLeast, Zenon
<1> QED BY <1>3, Zenon DEF A

\* A block that follows the last one of a flow.
Followed(e, t, tr, new) ==
    /\ CanStop(LastBlock(e), t)
    /\ mem' = [Stopped(LastBlock(e), t) EXCEPT ![new] = NewBlock(mem[e].flow_id, t, tr),
                                               ![LastBlock(e)].mod_flow = new]

\* A line that stops the last block of a flow and adds one behind it.
LEMMA FollowedStep ==
    ASSUME Timed, Inv, NEW e \in Entries, NEW t \in Nat, NEW tr \in Traffic, NEW new \in Unused,
           Reads, head' = head, Followed(e, t, tr, new)
    PROVE  Inv'
<1> SUFFICES ASSUME Types, Lists, Places, Data, Scan, Sockets, Freed PROVE Inv'
  BY Zenon DEF Inv
<1> USE DEF Labels, Reading, Removing, Ending
<1> DEFINE last == LastBlock(e)
           id == mem[e].flow_id
           r == NewBlock(id, t, tr)
           link == [ModFlow EXCEPT ![last] = new]
<1>2. /\ pc = "parse" /\ pc' = pc /\ errors \in BOOLEAN /\ errors' \in BOOLEAN
      /\ (errors => errors') /\ commands' \in BOOLEAN
      /\ head' = head /\ done' = done /\ frees' = frees /\ signals' = signals /\ buffer' = buffer
      /\ tester_start' = tester_start
  BY Zenon DEF Types, Reads
<1>3. /\ Next_ \in Links /\ ModFlow \in Links
      /\ \A b \in Blocks : Next_[b] = mem[b].next /\ ModFlow[b] = mem[b].mod_flow
      /\ Row \in SUBSET Blocks /\ Kept \in SUBSET Blocks /\ Row \subseteq Kept
      /\ Kept = All(Row, ModFlow)
      /\ \A b \in Kept : mem[b].mod_flow # NULL => mem[b].mod_flow \in Kept
      /\ \A b \in Kept : mem[b].flow_id \in FlowIds
  BY Shape, InUse, Zenon
<1>4. /\ e \in Row /\ last \in Walk(e, ModFlow) /\ last \in Kept /\ last \in Blocks
      /\ mem[last].mod_flow = NULL /\ mem[last].flow_id = id /\ id \in FlowIds
      /\ done = NULL /\ Done = {}
  <2>1. e \in Row /\ last \in Walk(e, ModFlow) /\ last \in Kept /\ mem[last].mod_flow = NULL
    BY <1>2, AtParse, Zenon
  <2>2. mem[last].flow_id = id
    BY <2>1, SameFlow, Zenon
  <2>3. done = NULL /\ Done = {}
    BY <1>2, Shape, Zenon DEF Places
  <2> QED BY <1>3, <2>1, <2>2, <2>3, Zenon
<1>5. /\ new \in Blocks /\ new \notin Kept /\ frees[new] = 0
      /\ mem[new].next = NULL /\ mem[new].mod_flow = NULL /\ mem[new].flow_id = NULL
  BY UnusedIs, Zenon
<1>6. r \in Structures /\ Fresh(r, id, tester_start + t, tr)
  BY <1>4, NewBlockIs, Zenon
<1>7. tester_start + t \in Nat /\ mem[last].flow_start <= tester_start + t
  <2>1. tester_start + t \in Nat
    BY DEF Types
  <2>2. StopTime(last, t) = tester_start + t /\ mem[last].flow_start <= StopTime(last, t)
    BY <1>4, StoppedIs, Zenon DEF CanStop, Followed
  <2> QED BY <2>1, <2>2, Zenon
<1>8. /\ mem' \in [Blocks -> Structures] /\ mem'[new] = r
      /\ \A b \in Blocks \ {new, last} : mem'[b] = mem[b]
      /\ \A b \in Blocks \ {new} :
            /\ mem'[b].next = mem[b].next /\ mem'[b].flow_id = mem[b].flow_id
            /\ mem'[b].flow_start = mem[b].flow_start
            /\ mem'[b].next_tx = mem[b].next_tx /\ mem'[b].traffic = mem[b].traffic
            /\ mem'[b].list_index = mem[b].list_index
            /\ mem'[b].sequence_nmbr = mem[b].sequence_nmbr
            /\ mem'[b].send_sock = mem[b].send_sock
      /\ mem'[last].mod_flow = new /\ mem'[last].flow_stop = tester_start + t
  <2> DEFINE S == Stopped(last, t)
             q == [S[last] EXCEPT !.mod_flow = new]
  <2>1. /\ S \in [Blocks -> Structures] /\ \A b \in Blocks \ {last} : S[b] = mem[b]
        /\ Halted(S[last], mem[last]) /\ S[last].flow_stop = tester_start + t
    BY <1>4, StoppedIs, Zenon DEF CanStop, Followed
  <2>2. mem' = [S EXCEPT ![new] = r, ![last].mod_flow = new] /\ last # new
    BY <1>4, <1>5, Zenon DEF Followed
  <2> HIDE DEF S, last, r
  <2>3. mem' = [[S EXCEPT ![new] = r] EXCEPT ![last] = q]
    BY <1>4, <1>5, <2>1, <2>2, Zenon
  <2>4. S[last] \in Structures
    BY <1>4, <2>1, Zenon
  <2>5. q \in Structures
    BY <1>5, <2>4, Zenon DEF Structures, Addresses
  <2>6. /\ q.mod_flow = new /\ q.next = S[last].next /\ q.flow_id = S[last].flow_id
        /\ q.flow_start = S[last].flow_start /\ q.flow_stop = S[last].flow_stop
        /\ q.next_tx = S[last].next_tx /\ q.traffic = S[last].traffic
        /\ q.list_index = S[last].list_index /\ q.sequence_nmbr = S[last].sequence_nmbr
        /\ q.send_sock = S[last].send_sock
    BY <2>4, Zenon DEF Structures
  <2> HIDE DEF q
  <2>7. /\ mem' \in [Blocks -> Structures] /\ mem'[new] = r /\ mem'[last] = q
        /\ \A b \in Blocks \ {new, last} : mem'[b] = mem[b]
    <3>1. /\ [S EXCEPT ![new] = r] \in [Blocks -> Structures] /\ [S EXCEPT ![new] = r][new] = r
          /\ \A b \in Blocks \ {new} : [S EXCEPT ![new] = r][b] = S[b]
      BY <1>5, <1>6, <2>1, Zenon
    <3> DEFINE S1 == [S EXCEPT ![new] = r]
    <3> HIDE DEF S1
    <3>2. /\ mem' = [S1 EXCEPT ![last] = q] /\ S1 \in [Blocks -> Structures] /\ S1[new] = r
          /\ \A b \in Blocks \ {new} : S1[b] = S[b]
      BY <2>3, <3>1, Zenon DEF S1
    <3> QED BY <1>4, <1>5, <2>1, <2>2, <2>5, <3>2, ZenonT(60)
  <2>8. ASSUME NEW b \in Blocks, b # new
        PROVE  /\ mem'[b].next = mem[b].next /\ mem'[b].flow_id = mem[b].flow_id
               /\ mem'[b].flow_start = mem[b].flow_start
               /\ mem'[b].next_tx = mem[b].next_tx /\ mem'[b].traffic = mem[b].traffic
               /\ mem'[b].list_index = mem[b].list_index
               /\ mem'[b].sequence_nmbr = mem[b].sequence_nmbr
               /\ mem'[b].send_sock = mem[b].send_sock
    <3>1. CASE b = last
      BY <2>1, <2>6, <2>7, <3>1, Zenon DEF Halted
    <3>2. CASE b # last
      BY <2>7, <2>8, <3>2, Zenon
    <3> QED BY <3>1, <3>2, Zenon
  <2> QED BY <2>1, <2>6, <2>7, <2>8, Zenon
<1> HIDE DEF r, last
<1>9. /\ \A b \in Kept : b # new /\ mem[b].flow_id # NULL /\ frees[b] = 0
      /\ last # new
  BY <1>4, <1>5, Zenon DEF Lists
<1>10. \A b \in Blocks : mem'[b].mod_flow = IF b = last THEN new ELSE mem[b].mod_flow
  BY <1>5, <1>6, <1>8, Zenon DEF Fresh
<1>11. link \in Links /\ \A b \in Blocks : link[b] = IF b = last THEN new ELSE mem[b].mod_flow
  BY <1>3, <1>4, <1>5, Zenon DEF Links, Addresses
<1>12. Next_' = Next_ /\ ModFlow' = link
  <2>1. Next_' = [b \in Blocks |-> Next_[b]]
    <3>1. \A b \in Blocks : mem'[b].next = Next_[b]
      BY <1>3, <1>5, <1>6, <1>8, ZenonT(60) DEF Fresh
    <3> QED BY <3>1, Zenon DEF Next_
  <2>2. ModFlow' = [b \in Blocks |-> link[b]]
    BY <1>10, <1>11, Zenon DEF ModFlow
  <2> HIDE DEF link
  <2> QED BY <1>3, <1>11, <2>1, <2>2, Zenon DEF Links
<1>13. First' = First /\ Row' = Row /\ Done' = {} /\ Simple(First', Next_') /\ Simple(done', Next_')
  <2>1. First' = First /\ done' = done
    BY <1>2, Zenon DEF First
  <2> QED BY <1>4, <1>12, <2>1, Zenon DEF Row, Done, Lists
<1>14. Kept' = Kept \cup {new}
  <2>1. Kept' = All(Row, link)
    BY <1>12, <1>13, Zenon DEF Kept, All
  <2>2. /\ ModFlow \in Links /\ Row \in SUBSET Blocks /\ last \in All(Row, ModFlow)
        /\ ModFlow[last] = NULL /\ new \in Blocks /\ new \notin All(Row, ModFlow)
        /\ ModFlow[new] = NULL /\ link \in Links /\ link[last] = new
        /\ \A b \in Blocks \ {last} : link[b] = ModFlow[b]
    BY <1>3, <1>4, <1>5, <1>11, Zenon
  <2> HIDE DEF link
  <2>3. All(Row, link) = All(Row, ModFlow) \cup {new}
    BY <2>2, AllAfter
  <2> QED BY <1>3, <2>1, <2>3, Zenon
<1>15. ASSUME NEW b \in Row PROVE \E l \in Walk(b, ModFlow') : mem'[l].mod_flow = NULL
  <2>1. Walk(b, ModFlow) \subseteq Kept /\ b \in Blocks
    BY <1>3, Zenon DEF Kept
  <2>2. CASE last \in Walk(b, ModFlow)
    <3>1. Walk(b, link) = Walk(b, ModFlow) \cup {new}
      <4>1. /\ ModFlow[last] = NULL /\ new \notin Walk(b, ModFlow) /\ ModFlow[new] = NULL
            /\ link[last] = new /\ \A c \in Blocks \ {last} : link[c] = ModFlow[c]
        BY <1>3, <1>4, <1>5, <1>11, <2>1, Zenon
      <4> HIDE DEF link
      <4> QED BY <1>3, <1>5, <1>11, <2>1, <2>2, <4>1, WalkAfter, SMTT(30)
    <3>2. mem'[new].mod_flow = NULL
      BY <1>6, <1>8, Zenon DEF Fresh
    <3> HIDE DEF link
    <3> QED BY <1>12, <3>1, <3>2, Zenon
  <2>3. CASE last \notin Walk(b, ModFlow)
    <3>1. \A c \in Walk(b, ModFlow) : link[c] = ModFlow[c]
      BY <1>3, <1>11, <2>1, <2>3, Zenon
    <3>2. Walk(b, link) = Walk(b, ModFlow)
      <4> HIDE DEF link
      <4> QED BY <1>3, <1>11, <2>1, <3>1, WalkSame, Zenon DEF Addresses
    <3>3. PICK l \in Walk(b, ModFlow) : mem[l].mod_flow = NULL
      BY <1>2, Zenon DEF Places
    <3> HIDE DEF link
    <3> QED BY <1>3, <1>10, <1>12, <2>1, <2>3, <3>2, <3>3, Zenon
  <2> QED BY <2>2, <2>3, Zenon
<1> HIDE DEF link
<1>16. /\ Types' /\ Scan' /\ Sockets' /\ Freed'
       /\ \A b \in Kept' \cup Done' : mem'[b].flow_id # NULL /\ frees'[b] = 0
       /\ \A b \in Blocks : mem'[b].flow_id = NULL => mem'[b] = Zero
       /\ \A b \in Kept' :
             /\ mem'[b].traffic \in Traffic
             /\ mem'[b].traffic.waits # <<>> => mem'[b].list_index \in 1 .. Len(mem'[b].traffic.waits)
             /\ ~errors' => mem'[b].flow_start <= mem'[b].next_tx
  <2>1. head' \in Addresses
    BY <1>2, Zenon DEF Types
  <2>2. \A b \in Blocks \ {new} : mem'[b] = mem[b] \/ b \in Kept
    BY <1>4, <1>8, Zenon
  <2>3. Joins(new, id, tester_start + t, tr)
    BY <1>4, <1>5, <1>6, <1>7, <1>8, <1>13, <1>14, <2>2, Zenon DEF Joins
  <2> QED BY <2>1, <2>3, JoinStep, Zenon
<1>17. \A b \in Kept' \ Row' : mem'[b].next = NULL
  <2>1. \A b \in Kept \ Row : mem[b].next = NULL
    BY <1>2, Zenon DEF Places
  <2>2. \A b \in Kept \ Row : mem'[b].next = NULL
    BY <1>3, <1>8, <1>9, <2>1, ZenonT(60)
  <2>3. mem'[new].next = NULL
    BY <1>6, <1>8, Zenon DEF Fresh
  <2> QED BY <1>13, <1>14, <2>2, <2>3, Zenon
<1>18. Lists'
  <2>1. ASSUME NEW b \in Kept', mem'[b].mod_flow # NULL
        PROVE  /\ b \in Kept /\ mem'[b].mod_flow \in Kept' \ Row'
               /\ mem'[mem'[b].mod_flow].flow_id = mem'[b].flow_id
               /\ b # last => mem'[b].mod_flow = mem[b].mod_flow /\ mem[b].mod_flow # new
    <3>1. b # new
      BY <1>5, <1>9, <1>10, <2>1, Zenon
    <3>2. b \in Kept /\ b \in Blocks /\ mem'[b].flow_id = mem[b].flow_id
      BY <1>3, <1>8, <1>14, <2>1, <3>1, Zenon
    <3>3. CASE b = last
      <4>1. mem'[b].mod_flow = new /\ mem'[new].flow_id = id /\ mem[b].flow_id = id
        BY <1>4, <1>6, <1>8, <3>3, Zenon DEF Fresh
      <4>2. new \in Kept' \ Row'
        BY <1>3, <1>9, <1>13, <1>14, Zenon
      <4> QED BY <3>2, <3>3, <4>1, <4>2, Zenon
    <3>4. CASE b # last
      <4>1. mem'[b].mod_flow = mem[b].mod_flow
        BY <1>10, <3>2, <3>4, Zenon
      <4>2. mem[b].mod_flow \in Kept \ Row /\ mem[mem[b].mod_flow].flow_id = mem[b].flow_id
        BY <1>3, <2>1, <3>2, <4>1, Zenon DEF Lists
      <4>3. mem[b].mod_flow # new /\ mem'[mem[b].mod_flow].flow_id = mem[mem[b].mod_flow].flow_id
        BY <1>3, <1>8, <1>9, <4>2, Zenon
      <4> QED BY <1>13, <1>14, <3>2, <4>1, <4>2, <4>3, Zenon
    <3> QED BY <3>3, <3>4, Zenon
  <2>2. \A b \in Kept' : mem'[b].mod_flow \notin Row'
    BY <1>3, <1>13, <2>1, NoBlock, Zenon
  <2>3. \A b \in Kept' : mem'[b].mod_flow # NULL =>
           /\ mem'[mem'[b].mod_flow].flow_id = mem'[b].flow_id
           /\ mem'[mem'[b].mod_flow].next = NULL
    BY <1>17, <2>1, Zenon
  <2>4. ASSUME NEW b \in Kept', NEW c \in Kept', mem'[b].mod_flow = mem'[c].mod_flow,
               mem'[b].mod_flow # NULL
        PROVE  b = c
    <3>1. b \in Kept /\ c \in Kept
      BY <2>1, <2>4, Zenon
    <3>2. CASE b # last /\ c # last
      <4>1. mem[b].mod_flow = mem[c].mod_flow /\ mem[b].mod_flow # NULL
        BY <2>1, <2>4, <3>2, Zenon
      <4> QED BY <3>1, <4>1, Zenon DEF Lists
    <3>3. b = last => c = last
      BY <1>8, <2>1, <2>4, ZenonT(60)
    <3>4. c = last => b = last
      BY <1>8, <2>1, <2>4, Zenon
    <3> QED BY <3>2, <3>3, <3>4, Zenon
  <2>5. ASSUME NEW b \in Row', NEW c \in Row', mem'[b].flow_id = mem'[c].flow_id PROVE b = c
    <3>1. b \in Row /\ c \in Row /\ mem[b].flow_id = mem[c].flow_id
      BY <1>3, <1>8, <1>9, <1>13, <2>5, ZenonT(60)
    <3> QED BY <3>1, Zenon DEF Lists
  <2>6. Kept' \cap Done' = {}
    BY <1>13, Zenon
  <2> QED BY <1>13, <1>16, <2>2, <2>3, <2>4, <2>5, <2>6, Zenon DEF Lists
<1>19. Places'
  <2>1. \A b \in Row : mem'[b].next = mem[b].next
    BY <1>3, <1>8, <1>9, Zenon
  <2>2. Row' # {} => \E l \in Row' : mem'[l].next = NULL
    <3>1. Row # {} => \E l \in Row : mem[l].next = NULL
      BY <1>2, Zenon DEF Places
    <3> QED BY <1>13, <2>1, <3>1, Zenon
  <2>3. ~(signals' > 0)
    BY <1>2, Zenon DEF Places
  <2> QED BY <1>2, <1>13, <1>15, <1>17, <2>2, <2>3, Zenon DEF Places
<1>20. Data'
  <2>1. ASSUME NEW b \in Kept'
        PROVE  /\ mem'[b].flow_stop # 0 => mem'[b].flow_start <= mem'[b].flow_stop
               /\ mem'[b].mod_flow # NULL => mem'[b].flow_stop <= mem'[mem'[b].mod_flow].flow_start
    <3>1. CASE b = new
      BY <1>6, <1>8, <3>1, Zenon DEF Fresh
    <3>2. CASE b = last
      <4>1. /\ mem'[b].flow_start = mem[last].flow_start /\ mem'[b].flow_stop = tester_start + t
            /\ mem'[b].mod_flow = new
        BY <1>4, <1>8, <1>9, <3>2, Zenon
      <4>2. mem'[new].flow_start = tester_start + t
        BY <1>6, <1>8, Zenon DEF Fresh
      <4>3. \A x \in Nat : x <= x
        OBVIOUS
      <4> QED BY <1>7, <4>1, <4>2, <4>3, Zenon
    <3>3. CASE b \notin {new, last}
      <4>1. b \in Kept /\ b \in Blocks /\ mem'[b] = mem[b]
        BY <1>3, <1>8, <1>14, <2>1, <3>3, Zenon
      <4>2. /\ mem[b].flow_stop # 0 => mem[b].flow_start <= mem[b].flow_stop
            /\ mem[b].mod_flow # NULL => mem[b].flow_stop <= mem[mem[b].mod_flow].flow_start
        BY <4>1, Zenon DEF Data
      <4>3. mem[b].mod_flow # NULL => mem'[mem[b].mod_flow].flow_start = mem[mem[b].mod_flow].flow_start
        BY <1>3, <1>8, <1>9, <4>1, Zenon
      <4> QED BY <4>1, <4>2, <4>3, Zenon
    <3> QED BY <3>1, <3>2, <3>3, Zenon
  <2> QED BY <1>2, <1>16, <2>1, Zenon DEF Data
<1> QED BY <1>16, <1>18, <1>19, <1>20, Zenon DEF Inv

\* A line MODIFY.
LEMMA flow_modifyStep ==
    ASSUME Timed, Inv, NEW e \in Entries, NEW t \in ModTimes, NEW tr \in Traffic, NEW new \in Unused,
           flow_modify(e, t, tr, new)
    PROVE  Inv'
<1> DEFINE ok == CanStop(LastBlock(e), t) /\ tr.ftype = "CBR"
<1>1. t \in Nat /\ errors \in BOOLEAN /\ commands \in BOOLEAN
  BY RudeAssumption, Zenon DEF Inv, Types
<1>2. Reads /\ head' = head
  BY <1>1, Zenon DEF flow_modify, Line, Count, Reads, locals, system
<1>3. CASE ok
  <2>1. Followed(e, t, tr, new)
    BY <1>3, Zenon DEF flow_modify, Followed
  <2> QED BY <1>1, <1>2, <2>1, FollowedStep, Zenon
<1>4. CASE ~ok
  <2>1. mem' = Stopped(LastBlock(e), t)
    BY <1>4, Zenon DEF flow_modify
  <2> QED BY <1>1, <1>2, <2>1, StoppedStep, Zenon
<1> QED BY <1>3, <1>4, Zenon

\* The invariant holds when the program begins.
LEMMA InitInv == Init => Inv
<1> SUFFICES ASSUME Init PROVE Inv
  BY Zenon
<1> USE DEF Init
<1>1. First = NULL /\ Row = {} /\ Kept = {} /\ Done = {}
  <2>1. First = NULL
    BY Zenon DEF First
  <2>2. Row = {} /\ Done = {}
    BY <2>1, WalkEmpty, Zenon DEF Row, Done
  <2> QED BY <2>1, <2>2, Zenon DEF Kept
<1>2. Types
  <2>1. Zero \in Structures
    BY Zenon DEF Zero, Structures, Addresses
  <2>2. mem \in [Blocks -> Structures]
    BY <2>1, Zenon
  <2>3. frees \in [Addresses -> Nat]
    BY Zenon DEF Addresses
  <2>4. sent \in [FlowIds -> Nat] /\ closes \in [FlowIds -> Nat]
    BY Zenon
  <2>5. pc \in Labels /\ {head, done, flow, prev, target, tmp1} \subseteq Addresses
    BY Zenon DEF Labels, Reading, Addresses
  <2>6. {start_set, errors, commands, buffer} \subseteq BOOLEAN
    BY Zenon
  <2>7. {tester_start, checked, now, failures, signals} \subseteq Nat /\ open \subseteq FlowIds
    OBVIOUS
  <2> QED BY <2>2, <2>3, <2>4, <2>5, <2>6, <2>7, Zenon DEF Types
<1>3. \A b \in Blocks : mem[b] = Zero /\ mem[b].flow_id = NULL
  BY Zenon DEF Zero
<1>4. Lists
  <2>1. Simple(NULL, Next_)
    BY WalkEmpty, Zenon DEF Simple
  <2> QED BY <1>1, <1>3, <2>1, Zenon DEF Lists
<1>5. Places
  BY <1>1 DEF Places, Reading, Removing, Ending
<1>6. Data
  BY <1>1, Zenon DEF Data, Reading
<1>7. Scan
  BY Zenon DEF Scan, Removing
<1>8. Sockets
  BY <1>1 DEF Sockets, Half, Reading
<1>9. Freed
  BY <1>1, <1>3, Zenon DEF Freed
<1> QED BY <1>2, <1>4, <1>5, <1>6, <1>7, <1>8, <1>9, Zenon DEF Inv

\* A line of the configuration, or its end.
LEMMA ParseStep ==
    ASSUME Timed, Inv, Parse PROVE Inv'
<1>1. CASE \E t \in OnTimes, tr \in Traffic :
              /\ Unused # {} /\ NewIds # {}
              /\ flow_on(CHOOSE id \in NewIds : TRUE, t, tr, CHOOSE b \in Unused : TRUE)
  <2>1. PICK t \in OnTimes, tr \in Traffic :
           /\ Unused # {} /\ NewIds # {}
           /\ flow_on(CHOOSE id \in NewIds : TRUE, t, tr, CHOOSE b \in Unused : TRUE)
    BY <1>1, Zenon
  <2> DEFINE new == CHOOSE b \in Unused : TRUE
             id0 == CHOOSE id \in NewIds : TRUE
  <2>2. new \in Unused /\ id0 \in NewIds /\ flow_on(id0, t, tr, new)
    BY <2>1, Zenon
  <2> HIDE DEF new, id0
  <2> QED BY <2>2, flow_onStep, Zenon
<1>2. CASE \E b \in Entries, t \in OffTimes : flow_off(b, t)
  BY <1>2, flow_offStep, Zenon
<1>3. CASE \E b \in Entries, t \in ModTimes, tr \in Traffic :
              Unused # {} /\ flow_modify(b, t, tr, CHOOSE c \in Unused : TRUE)
  <2>1. PICK b \in Entries, t \in ModTimes, tr \in Traffic :
           Unused # {} /\ flow_modify(b, t, tr, CHOOSE c \in Unused : TRUE)
    BY <1>3, Zenon
  <2> DEFINE new == CHOOSE c \in Unused : TRUE
  <2>2. new \in Unused /\ flow_modify(b, t, tr, new)
    BY <2>1, Zenon
  <2> HIDE DEF new
  <2> QED BY <2>2, flow_modifyStep, Zenon
<1>4. CASE \E t \in Starts : start_time(t)
  BY <1>4, start_timeStep, Zenon
<1> QED BY <1>1, <1>2, <1>3, <1>4, LineStep, EndOfFileStep, Zenon
        DEF Parse

\* A step that changes nothing.
LEMMA StutterStep ==
    ASSUME Inv, UNCHANGED vars PROVE Inv'
<1> USE DEF vars, lists, parser, locals, system
<1> SUFFICES ASSUME Types, Lists, Places, Data, Scan, Sockets, Freed PROVE Inv'
  BY Zenon DEF Inv
<1>2. Quiet
  BY Zenon DEF Quiet, First
<1>3. /\ Lists' /\ mem' = mem
      /\ Next_' = Next_ /\ ModFlow' = ModFlow /\ Row' = Row /\ Done' = Done /\ Kept' = Kept
  BY <1>2, QuietLists, Zenon
<1>4. Types'
  BY Zenon DEF Types
<1>5. Places'
  <2>1. (Off(flow) => Off(flow)') /\ (Off(tmp1) => Off(tmp1)')
    BY <1>3, Zenon DEF Off
  <2>2. /\ pc' = "rm_link" => Off(flow)' /\ frees'[flow'] = 0
        /\ pc' \in {"cu_free", "cu_dfree"} => Off(tmp1)'
    BY <2>1, Zenon DEF Places
  <2>3. /\ pc' = "parse" =>
              /\ Row' # {} => \E l \in Row' : mem'[l].next = NULL
              /\ \A b \in Row' : \E l \in Walk(b, ModFlow') : mem'[l].mod_flow = NULL
        /\ pc' \notin Ending =>
              \A b \in Kept' \ Row' :
                 mem'[b].next # NULL => pc' = "rm_unlink" /\ b = mem'[flow'].mod_flow
    BY <1>3, Zenon DEF Places
  <2> QED BY <1>3, <2>2, <2>3, Zenon DEF Places
<1>6. Data'
  BY <1>3, Zenon DEF Data
<1>7. Scan'
  <2>1. Position' = Position
    BY Zenon DEF Position
  <2>2. Ahead' = Ahead
    BY <1>3, <2>1, Zenon DEF Ahead
  <2>3. Passed' = Passed
    BY <1>3, <2>2, Zenon DEF Passed
  <2> QED BY <1>3, <2>1, <2>2, <2>3, Zenon DEF Scan
<1>8. Sockets'
  <2>1. Passed' = Passed /\ Half' = Half
    BY <1>3, Zenon DEF Position, Ahead, Passed, Half
  <2> QED BY <1>3, <2>1, ZenonT(60) DEF Sockets
<1>9. Freed'
  BY <1>3, Zenon DEF Freed
<1> QED BY <1>3, <1>4, <1>5, <1>6, <1>7, <1>8, <1>9, Zenon DEF Inv

\* What a walk from the head meets, also while clean_up replaces the first block.
LEMMA ActiveKept ==
    ASSUME Inv
    PROVE  /\ Entries \subseteq Active /\ Active \subseteq Kept
           /\ pc # "cu_relink" => Entries = Row /\ Active = Kept
           /\ \A b, c \in Entries : mem[b].flow_id = mem[c].flow_id => b = c
<1>1. Types /\ Lists /\ Places
  BY Zenon DEF Inv
<1>2. Active = All(Entries, ModFlow) /\ Entries = Walk(head, Next_)
  BY Zenon DEF Active, All, BlocksOf, Entries
<1>3. /\ Row \subseteq Kept /\ Kept \in SUBSET Blocks /\ ModFlow \in Links /\ Next_ \in Links
      /\ head \in Addresses
      /\ \A b, c \in Row : mem[b].flow_id = mem[c].flow_id => b = c
  BY <1>1, Shape, Zenon DEF Lists
<1>4. Entries \subseteq Active
  <2>1. Entries \in SUBSET Blocks
    BY <1>2, <1>3, WalkHas, Zenon
  <2> QED BY <1>2, <1>3, <2>1, AllHas, Zenon
<1>5. CASE pc # "cu_relink"
  <2>1. Entries = Row
    BY <1>5, Zenon DEF Entries, Row, First
  <2>2. Active = Kept
    BY <2>1, Zenon DEF Active, BlocksOf, Kept
  <2> QED BY <1>3, <1>4, <2>1, <2>2, Zenon
<1>6. CASE pc = "cu_relink"
  <2>1. \/ Entries = (Row \ {tmp1}) \cup {head} /\ Active = Kept \ {tmp1}
        \/ Entries = {head} /\ Active \subseteq Kept \ Row
    BY <1>1, <1>2, <1>6, FromHeir, Zenon
  <2>2. mem[head].flow_id = mem[tmp1].flow_id /\ tmp1 \in Row
    <3>1. /\ tmp1 \in Row /\ tmp1 \in Kept /\ mem[tmp1].mod_flow # NULL
          /\ head = mem[tmp1].mod_flow
      BY <1>1, <1>3, <1>6, AtRelink, NoBlock, Zenon
    <3>2. mem[mem[tmp1].mod_flow].flow_id = mem[tmp1].flow_id
      BY <1>1, <3>1, Zenon DEF Lists
    <3> QED BY <3>1, <3>2, Zenon
  <2> QED BY <1>3, <1>4, <1>6, <2>1, <2>2, Zenon
<1> QED BY <1>5, <1>6, Zenon

\* Only send_func sends a packet.
LEMMA OnlySend ==
    ASSUME [Next]_vars, sent' # sent PROVE send_func
<1> USE DEF vars, lists, parser, locals, system
<1>1. ~CleanUp
  BY Zenon DEF CleanUp, CloseFirst, ZeroFirst, UnlinkFirst, RelinkFirst, FreeActive, ActiveCleared,
         UnlinkDone, FreeDone, FreeBuffer, Exit
<1>2. ~Parse
  BY ZenonT(60) DEF Parse, Comment, Invalid, Tos, EndOfFile, start_now, start_time, flow_on, flow_off,
         flow_modify, Line
<1>3. ASSUME Transmit PROVE send_func
  BY <1>3, Zenon DEF Transmit, find_next, ScanFlow, ScanExpired, FoundNext, InitNextBlock, ClearSocket,
              Unlink, LinkToDone
<1>4. ~(\/ ReadOptions \/ init_rude \/ open_sockets \/ SocketsTried \/ StartLoop
        \/ RaisePriority \/ RestorePriority \/ rude_handler \/ Tick)
  BY Zenon DEF ReadOptions, init_rude, open_sockets, SocketsTried, StartLoop, RaisePriority,
         RestorePriority, rude_handler, Tick
<1> QED BY <1>1, <1>2, <1>3, <1>4, Zenon DEF Next, main

-----------------------------------------------------------------------------
(* Times *)

INSTANCE WellFoundedInduction

\* A nonempty set of naturals has a least element.
LEMMA Least ==
    ASSUME NEW T \in SUBSET Nat, T # {}
    PROVE  \E x \in T : \A y \in T : x <= y
<1> DEFINE R == OpToRel(<, Nat)
<1>1. IsWellFoundedOn(R, Nat)
  BY NatLessThanWellFounded, Zenon
<1>2. \A x, y \in Nat : x < y => <<x, y>> \in R
  BY Zenon DEF OpToRel
<1> HIDE DEF R
<1>3. PICK x \in T : \A y \in T : ~(<<y, x>> \in R)
  BY <1>1, WFMin, Zenon
<1>4. \A y \in T : ~(y < x)
  BY <1>2, <1>3, Zenon
<1>5. \A y \in T : x <= y
  BY <1>4
<1> QED BY <1>5, Zenon

\* The digits of a fraction, filled up with zeros, and the function that the
\* recursive definition of Ticks speaks of.
Digit(fraction, i) == IF i <= Len(fraction) THEN fraction[i] ELSE 0
Value(v, fraction) ==
    v = [i \in 0 .. Digits |-> IF i = 0 THEN 0 ELSE Base * v[i - 1] + Digit(fraction, i)]

\* The function of Ticks is the one that its definition describes.
LEMMA TicksChosen ==
    ASSUME NEW fraction
    PROVE  Ticks(fraction) = (CHOOSE v : Value(v, fraction))[Digits]
BY Zenon DEF Ticks, Value, Digit

\* A fraction of a second is a natural number of ticks.
LEMMA TicksNat ==
    ASSUME NEW fraction \in Seq(0 .. Base - 1)
    PROVE  Ticks(fraction) \in Nat
<1> DEFINE d(i) == Digit(fraction, i)
           Up(n, v) == /\ v \in [0 .. n -> Nat] /\ v[0] = 0
                       /\ \A i \in 1 .. n : v[i] = Base * v[i - 1] + d(i)
<1>1. Base \in Nat /\ Digits \in Nat
  BY RudeAssumption, Zenon
<1>2. \A i \in Nat \ {0} : d(i) \in Nat
  BY <1>1 DEF Digit
<1> HIDE DEF d
<1>3. \A n \in Nat : \E v : Up(n, v)
  <2> SUFFICES ASSUME {n \in Nat : ~\E v : Up(n, v)} # {} PROVE FALSE
    BY Zenon
  <2>1. PICK n \in Nat : /\ ~\E v : Up(n, v)
                         /\ \A y \in Nat : (~\E v : Up(y, v)) => n <= y
    <3> DEFINE T == {y \in Nat : ~\E v : Up(y, v)}
    <3>1. T \in SUBSET Nat /\ T # {}
      BY Zenon
    <3> HIDE DEF Up
    <3>2. PICK x \in T : \A y \in T : x <= y
      <4> HIDE DEF T
      <4> QED BY <3>1, Least, Zenon
    <3> QED BY <3>2, Zenon
  <2>2. Up(0, [i \in 0 .. 0 |-> 0])
    OBVIOUS
  <2>3. n # 0
    <3> HIDE DEF Up
    <3> QED BY <2>1, <2>2, Zenon
  <2>4. PICK v : Up(n - 1, v)
    <3> HIDE DEF Up
    <3> QED BY <2>1, <2>3
  <2> DEFINE w == [i \in 0 .. n |-> IF i = n THEN Base * v[n - 1] + d(n) ELSE v[i]]
  <2>5. v[n - 1] \in Nat /\ Base * v[n - 1] + d(n) \in Nat
    <3>1. v[n - 1] \in Nat /\ d(n) \in Nat
      BY <1>2, <2>3, <2>4
    <3> QED BY <1>1, <3>1, Grows, Zenon
  <2>6. w \in [0 .. n -> Nat] /\ w[0] = 0
    BY <2>3, <2>4, <2>5
  <2>7. ASSUME NEW i \in 1 .. n PROVE w[i] = Base * w[i - 1] + d(i)
    BY <2>3, <2>4
  <2>8. Up(n, w)
    BY <2>6, <2>7, Zenon
  <2> HIDE DEF Up, w
  <2> QED BY <2>1, <2>8, Zenon
<1>4. PICK v : Up(Digits, v)
  <2> HIDE DEF Up
  <2> QED BY <1>1, <1>3, Zenon
<1>5. Value(v, fraction)
  <2>1. \A i \in 0 .. Digits : v[i] = IF i = 0 THEN 0 ELSE Base * v[i - 1] + d(i)
    BY <1>1, <1>4
  <2> QED BY <1>4, <2>1, Zenon DEF Value, d
<1> DEFINE u == CHOOSE x : Value(x, fraction)
<1>6. Value(u, fraction)
  BY <1>5, Zenon
<1> HIDE DEF u
<1>7. \A i \in 0 .. Digits : u[i] = IF i = 0 THEN 0 ELSE Base * u[i - 1] + d(i)
  BY <1>6, Zenon DEF Value, d
<1>8. ASSUME {i \in 0 .. Digits : u[i] \notin Nat} # {} PROVE FALSE
  <2> DEFINE T == {i \in 0 .. Digits : u[i] \notin Nat}
  <2>1. T \in SUBSET Nat /\ T # {}
    BY <1>1, <1>8
  <2>2. PICK x \in T : \A y \in T : x <= y
    <3> HIDE DEF T
    <3> QED BY <2>1, Least, Zenon
  <2>3. x # 0 /\ x \in 1 .. Digits
    BY <1>1, <1>7, <2>2
  <2>4. u[x - 1] \in Nat
    BY <1>1, <2>2, <2>3
  <2>5. Base * u[x - 1] + d(x) \in Nat
    <3>1. d(x) \in Nat
      BY <1>1, <1>2, <2>3
    <3> QED BY <1>1, <2>4, <3>1, Grows, Zenon
  <2> QED BY <1>1, <1>7, <2>2, <2>3, <2>5, Zenon
<1>9. u[Digits] \in Nat
  BY <1>1, <1>8
<1> QED BY <1>9, TicksChosen, Zenon DEF u

\* The times to wait are naturals.
LEMMA TrafficTyped ==
    ASSUME NEW tr \in Traffic
    PROVE  tr.waits \in Seq(Nat)
<1>1. CASE tr \in CbrTraffic
  BY <1>1, RudeAssumption, Zenon
<1>2. CASE tr \notin CbrTraffic
  <2>1. PICK f \in TraceFiles : tr = trace_parse(f) /\ tr.waits # <<>>
    BY <1>2, Zenon DEF Traffic
  <2> DEFINE L == f.lines
  <2>2. f.terminated \in BOOLEAN /\ L \in Seq([psize : Nat, sec : Int, fraction : Seq(0 .. Base - 1)])
    BY RudeAssumption, Zenon
  <2> HIDE DEF L
  <2> DEFINE n == Counted(f)
             used == IF \A i \in 1 .. n : LineRight(L[i]) THEN n ELSE 0
             wait(i) == Second * L[i].sec + Ticks(L[i].fraction)
  <2>3. n \in Int /\ n <= Len(L)
    BY <2>2 DEF Counted, L
  <2>4. \A i \in 1 .. Len(L) : L[i].sec \in Int /\ L[i].fraction \in Seq(0 .. Base - 1)
    <3> DEFINE F == Seq(0 .. Base - 1)
               T == [psize : Nat, sec : Int, fraction : F]
    <3>1. \A t \in T : t.sec \in Int /\ t.fraction \in F
      BY Zenon
    <3>2. L \in Seq(T)
      BY <2>2, Zenon
    <3> HIDE DEF T, F
    <3>3. \A i \in 1 .. Len(L) : L[i] \in T
      BY <3>2
    <3>4. \A i \in 1 .. Len(L) : L[i].sec \in Int /\ L[i].fraction \in F
      BY <3>1, <3>3, Zenon
    <3> QED BY <3>4, Zenon DEF F
  <2> HIDE DEF n
  <2>5. ASSUME NEW i \in 1 .. used PROVE wait(i) \in Nat
    <3>1. i \in 1 .. n /\ i \in 1 .. Len(L) /\ LineRight(L[i])
      BY <2>2, <2>3, <2>5
    <3>2. L[i].sec \in Nat /\ Ticks(L[i].fraction) \in Nat
      BY <2>4, <3>1, TicksNat DEF LineRight
    <3> QED BY <3>2, SecondNat, Grows, Zenon
  <2>6. used \in Int
    BY <2>3
  <2>7. tr.waits = [i \in 1 .. used |-> wait(i)]
    BY <2>1, Zenon DEF trace_parse, n, L
  <2> HIDE DEF used, wait
  <2>8. CASE used \in Nat
    BY <2>5, <2>7, <2>8
  <2>9. CASE used \notin Nat
    <3>1. 1 .. used = {}
      BY <2>6, <2>9
    <3>2. tr.waits = <<>>
      BY <2>7, <3>1
    <3> QED BY <2>1, <3>2, Zenon
  <2> QED BY <2>8, <2>9, Zenon
<1> QED BY <1>1, <1>2, Zenon

\* Every step keeps the invariant.
LEMMA NextInv == Inv /\ [Next]_vars => Inv'
<1> SUFFICES ASSUME Inv, [Next]_vars PROVE Inv'
  BY Zenon
<1>0. Timed
  BY TrafficTyped, Zenon DEF Timed
<1>1. CASE CleanUp
  BY <1>1, CloseFirstStep, ZeroFirstStep, UnlinkFirstStep, RelinkFirstStep, FreeBlockStep,
     ActiveClearedStep, UnlinkDoneStep, FreeBufferStep, ExitStep, Zenon DEF CleanUp
<1>2. CASE Transmit
  BY <1>0, <1>2, find_nextStep, ScanFlowStep, ScanExpiredStep, FoundNextStep, InitNextBlockStep,
     ClearSocketStep, UnlinkStep, LinkToDoneStep, send_funcStep, Zenon DEF Transmit
<1>3. CASE main
  BY <1>0, <1>1, <1>2, <1>3, ReadOptionsStep, ParseStep, init_rudeStep, open_socketsStep,
     SocketsTriedStep, StartLoopStep, RaisePriorityStep, RestorePriorityStep, Zenon DEF main
<1> QED BY <1>3, rude_handlerStep, TickStep, StutterStep, Zenon DEF Next

\* The inductive invariant holds in every reachable state.
THEOREM InvHolds == Spec => []Inv
BY InitInv, NextInv, PTL DEF Spec

-----------------------------------------------------------------------------
(* The properties *)

\* read_cfg and remove_flow keep one entry for each flow and its blocks in order, in
\* every configuration.
THEOREM FlowsInOrderHolds == Spec => []FlowsInOrder
<1>1. Inv => FlowsInOrder
  <2> SUFFICES ASSUME Inv PROVE FlowsInOrder
    BY Zenon
  <2>1. Types /\ Lists /\ Places /\ Data
    BY Zenon DEF Inv
  <2>2. Active \subseteq Kept /\ \A b, c \in Entries : mem[b].flow_id = mem[c].flow_id => b = c
    BY ActiveKept, Zenon
  <2>3. pc = "options" => Kept = {}
    <3>1. pc = "options" => First = NULL
      BY <2>1, Zenon DEF Places, First
    <3> QED BY <2>1, <3>1, Shape, Zenon
  <2>4. ASSUME pc # "parse", ~errors, NEW b \in Active
        PROVE  /\ mem[b].flow_start <= mem[b].flow_stop
               /\ mem[b].mod_flow # NULL =>
                     /\ mem[mem[b].mod_flow].flow_id = mem[b].flow_id
                     /\ mem[mem[b].mod_flow].flow_start >= mem[b].flow_stop
    <3>1. b \in Kept /\ pc \notin Reading
      BY <2>2, <2>3, <2>4, Zenon DEF Reading
    <3>2. mem[b].flow_start <= mem[b].flow_stop
      BY <2>1, <2>4, <3>1, Zenon DEF Data
    <3>3. ASSUME mem[b].mod_flow # NULL
          PROVE  /\ mem[mem[b].mod_flow].flow_id = mem[b].flow_id
                 /\ mem[mem[b].mod_flow].flow_start >= mem[b].flow_stop
      <4>1. mem[mem[b].mod_flow].flow_id = mem[b].flow_id
        BY <2>1, <3>1, <3>3, Zenon DEF Lists
      <4>2. mem[b].flow_stop <= mem[mem[b].mod_flow].flow_start
        BY <2>1, <3>1, <3>3, Zenon DEF Data
      <4>3. b \in Blocks /\ mem[b].mod_flow \in Blocks
        BY <2>1, <3>1, <3>3, Shape, Zenon
      <4>4. mem[b].flow_stop \in Nat /\ mem[mem[b].mod_flow].flow_start \in Nat
        BY <2>1, <4>3, Fields, Zenon
      <4> QED BY <4>1, <4>2, <4>4, Zenon
    <3> QED BY <3>2, <3>3, Zenon
  <2> QED BY <2>2, <2>4, Zenon DEF FlowsInOrder
<1> QED BY <1>1, InvHolds, PTL

\* While packets are sent, the flows that have a block are those with an open socket,
\* and remove_flow hands the sequence number on to the next block.
THEOREM SequenceGoesOnHolds == Spec => []SequenceGoesOn
<1>1. Inv => SequenceGoesOn
  <2> SUFFICES ASSUME Inv, pc \in {"run", "scan", "wait"}
               PROVE  /\ open = {mem[b].flow_id : b \in Entries}
                      /\ \A b \in Entries : /\ mem[b].send_sock
                                            /\ mem[b].sequence_nmbr = sent[mem[b].flow_id]
    BY Zenon DEF SequenceGoesOn
  <2> USE DEF Reading, Ending
  <2>1. Entries = Row
    BY ActiveKept, Zenon
  <2>2. signals = 0
    BY DEF Inv, Places, Types
  <2>3. /\ open = {mem[b].flow_id : b \in {c \in Row : mem[c].send_sock}}
        /\ \A b \in Row : mem[b].send_sock /\ mem[b].sequence_nmbr = sent[mem[b].flow_id]
    BY <2>2, Zenon DEF Inv, Sockets, Half
  <2>4. {c \in Row : mem[c].send_sock} = Row
    BY <2>3, Zenon
  <2> QED BY <2>1, <2>3, <2>4, Zenon
<1> QED BY <1>1, InvHolds, PTL

\* clean_up releases every block, the buffer and every socket exactly once on every way
\* to the end without a signal.
THEOREM ReleasedHolds == Spec => []Released
<1>1. Inv => Released
  <2> SUFFICES ASSUME Inv, signals = 0
               PROVE  /\ ReleasedOnce
                      /\ pc \in {"exit", "gone"} =>
                            /\ \A b \in Allocated : frees[b] = 1
                            /\ buffer => frees[NULL] = 1
                            /\ open = {}
                            /\ sched = "SCHED_OTHER" \/ failures > 0
    BY Zenon DEF Released
  <2>1. Types /\ Lists /\ Places /\ Sockets /\ Freed
    BY Zenon DEF Inv
  <2>2. ReleasedOnce
    <3>1. \A b \in Blocks : frees[b] <= 1
      <4> SUFFICES ASSUME NEW b \in Blocks PROVE frees[b] <= 1
        BY Zenon
      <4>1. frees[b] = 0 \/ frees[b] = 1
        BY <2>1, ZenonT(60) DEF Freed
      <4> QED BY <4>1
    <3>2. frees[NULL] <= 1
      <4>1. frees[NULL] = 0 \/ frees[NULL] = 1
        BY <2>1, ZenonT(60) DEF Freed
      <4> QED BY <4>1
    <3>3. \A f \in FlowIds : closes[f] <= 1
      BY <2>1, Zenon DEF Sockets
    <3> QED BY <3>1, <3>2, <3>3, Zenon DEF ReleasedOnce
  <2>3. ASSUME pc \in {"exit", "gone"}
        PROVE  /\ \A b \in Allocated : frees[b] = 1
               /\ buffer => frees[NULL] = 1
               /\ open = {}
               /\ sched = "SCHED_OTHER" \/ failures > 0
    <3>1. First = NULL /\ done = NULL
      BY <2>1, <2>3, Zenon DEF Places, First
    <3>2. Row = {} /\ Kept = {} /\ Done = {}
      BY <2>1, <3>1, Shape, Zenon
    <3>3. open = {}
      BY <2>1, <3>2, Zenon DEF Sockets
    <3>4. \A b \in Allocated : frees[b] = 1
      BY <2>1, <2>3, <3>2, Zenon DEF Freed, Allocated
    <3>5. /\ buffer => frees[NULL] = 1
          /\ sched = "SCHED_OTHER" \/ failures > 0
      BY <2>1, <2>3, Zenon DEF Freed, Removing
    <3> QED BY <3>3, <3>4, <3>5, Zenon
  <2> QED BY <2>2, <2>3, Zenon
<1> QED BY <1>1, InvHolds, PTL

\* Wherever a signal finds the program, the lists that the handler walks along hold no
\* block that has been freed.
THEOREM NothingDanglingHolds == Spec => []NothingDangling
<1>1. Inv => NothingDangling
  BY ActiveKept, Zenon DEF Inv, Lists, NothingDangling
<1> QED BY <1>1, InvHolds, PTL

\* Every packet leaves in its turn, in the time of its block and not early, however slow
\* the host and whatever find_next removed on the way.
THEOREM InTurnHolds == Spec => InTurn
<1>1. ASSUME Inv, [Next]_vars, sent' # sent
      PROVE  /\ target \in Entries
             /\ sent' = [sent EXCEPT ![mem[target].flow_id] = @ + 1]
             /\ \A b \in Entries : mem[target].next_tx <= mem[b].next_tx
             /\ mem[target].next_tx \in mem[target].flow_start .. mem[target].flow_stop
             /\ now >= mem[target].next_tx /\ now >= tester_start
  <2>1. send_func
    BY <1>1, OnlySend, Zenon
  <2>2. /\ pc = "wait" /\ Due(target)
        /\ sent' = [sent EXCEPT ![mem[target].flow_id] = @ + 1]
    BY <2>1, Zenon DEF send_func
  <2>3. Types /\ Lists /\ Data /\ Scan
    BY <1>1, Zenon DEF Inv
  <2>4. Entries = Row
    BY <1>1, <2>2, ActiveKept, Zenon
  <2>5. /\ target \in Row /\ \A b \in Row : mem[target].next_tx <= mem[b].next_tx
        /\ mem[target].next_tx <= mem[target].flow_stop
    BY <2>2, <2>3, Zenon DEF Scan
  <2>6. target \in Kept /\ target \in Blocks
    BY <2>3, <2>5, Shape, Zenon
  <2>7. mem[target].flow_start <= mem[target].next_tx /\ now >= tester_start
    BY <2>2, <2>3, <2>6, Zenon DEF Data, Reading, Ending
  <2>8. /\ mem[target].next_tx \in Nat /\ mem[target].flow_start \in Nat
        /\ mem[target].flow_stop \in Nat
    BY <2>3, <2>6, Fields, Zenon
  <2> QED BY <2>2, <2>4, <2>5, <2>7, <2>8, SMTT(30) DEF Due
<1>2. Inv /\ [Next]_vars =>
         [sent' # sent =>
            /\ target \in Entries
            /\ sent' = [sent EXCEPT ![mem[target].flow_id] = @ + 1]
            /\ \A b \in Entries : mem[target].next_tx <= mem[b].next_tx
            /\ mem[target].next_tx \in mem[target].flow_start .. mem[target].flow_stop
            /\ now >= mem[target].next_tx /\ now >= tester_start]_vars
  BY <1>1, Zenon
<1> QED BY <1>2, InvHolds, PTL DEF Spec, InTurn
=============================================================================
