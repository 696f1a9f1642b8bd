------------------------------- MODULE Logger -------------------------------
(***************************************************************************)
(* The logger tree (Logger.cpp): a node owns its children and knows its    *)
(* parent by a weak pointer; getLogger walks down and makes what is        *)
(* missing; redirectTo moves a logger's children under another node and    *)
(* binds the handle to it, lock by lock; a message climbs to the root.     *)
(***************************************************************************)
EXTENDS SeqFilter, FiniteSets, FiniteSetsExt, SequencesExt

CONSTANTS Loggers,    \* each has one Logger (a Module's logger_)
          Paths,      \* names asked for, as sequences of parts
          MaxNodes,   \* bound: nodes ever made
          MaxCalls    \* bound: calls of getLogger or redirectTo in all

ASSUME LoggerAssumption == Paths \subseteq Seq(STRING)

VARIABLES name, parent, children,   \* of each node; node 1 is the root
          handle,                   \* spNode_ of each thread's Logger
          call,                     \* what each thread is doing
          calls, moved,             \* calls so far; nodes a redirect left
          crossed                   \* a redirect began while another was under way, or
                                    \* of a node that one had left

logVars == <<name, parent, children, handle, call, calls, moved, crossed>>
tree == <<name, parent, children>>

Root == 1
NoNode == 0
RootName == ""
Nodes == 1 .. Len(name)
NoCall == [at |-> "done", use |-> "none", cur |-> NoNode, rest |-> <<>>, target |-> NoNode]
Goes(t, c) == call' = [call EXCEPT ![t] = c]

LoggerInit == /\ name = <<RootName>> /\ parent = <<NoNode>> /\ children = <<<<>>>>
              /\ handle = [t \in Loggers |-> Root]
              /\ call = [t \in Loggers |-> NoCall]
              /\ calls = 0 /\ moved = {} /\ crossed = FALSE

----------------------------------------------------------------------------
\* Ownership: what the root, a handle or a running call holds, and their children
Closed(X) == \A n \in X : ToSet(children[n]) \subseteq X
Below(S) == LET covers == {X \in SUBSET Nodes : S \subseteq X /\ Closed(X)}
            IN  {n \in Nodes : \A X \in covers : n \in X}
Held(t) == {handle[t], call[t].cur, call[t].target} \cup
           (IF call[t].at \in {"move", "add"} THEN ToSet(call[t].rest) ELSE {})
Alive == Below(({Root} \cup UNION {Held(t) : t \in Loggers}) \ {NoNode})
InTree == Below({Root})

\* getParent: the weak pointer is empty once the node is gone
ParentOf(n) == IF parent[n] \in Alive THEN parent[n] ELSE NoNode

----------------------------------------------------------------------------
\* getLogger, and redirectTo, which begins with it. A node that was redirected keeps
\* its list of children, and a second redirect of it moves them again.
Begin(t, use, path) ==
    /\ call[t].at = "done" /\ calls < MaxCalls
    /\ calls' = calls + 1
    /\ Goes(t, [at |-> "walk", use |-> use, cur |-> Root, rest |-> path, target |-> NoNode])
    /\ crossed' = (\/ crossed
                   \/ /\ use = "redirect"
                      /\ \/ handle[t] \in moved
                         \/ \E s \in Loggers : call[s].use = "redirect")
    /\ UNCHANGED <<tree, handle, moved>>

\* getOrInitDirectChild, under the node's mutex
Walk(t) ==
    LET c == call[t]
        known == {i \in 1 .. Len(children[c.cur]) : name[children[c.cur][i]] = Head(c.rest)}
        Step(n) == Goes(t, [c EXCEPT !.cur = n, !.rest = Tail(c.rest)])
    IN  /\ c.at = "walk" /\ c.rest # <<>>
        /\ \/ /\ known # {}
              /\ Step(children[c.cur][Min(known)])
              /\ UNCHANGED tree
           \/ /\ known = {} /\ Len(name) < MaxNodes
              /\ name' = Append(name, Head(c.rest))
              /\ parent' = Append(parent, c.cur)
              /\ children' = Append([children EXCEPT ![c.cur] = Append(@, Len(name) + 1)], <<>>)
              /\ Step(Len(name) + 1)
        /\ UNCHANGED <<handle, calls, moved, crossed>>

\* getLogger hands out what it found; redirectTo to the own node is none, and the
\* root's handle is just bound anew
Arrive(t) ==
    LET c == call[t]
        n == c.cur
    IN  /\ c.at = "walk" /\ c.rest = <<>>
        /\ IF c.use = "lookup" \/ handle[t] \in {n, Root}
           THEN Goes(t, NoCall) /\ handle' = [handle EXCEPT ![t] = n]
           ELSE Goes(t, [c EXCEPT !.at = "check", !.target = n]) /\ UNCHANGED handle
        /\ UNCHANGED <<tree, calls, moved, crossed>>

\* Mutant for TreeSound: no search for a circle.
SearchNothing(t) == /\ call[t].at = "check"
                   /\ Goes(t, [call[t] EXCEPT !.at = "detach", !.cur = NoNode])
                   /\ UNCHANGED <<tree, handle, calls, moved, crossed>>

\* The search for a circle, one parent at a time; a circle throws
SearchCircle(t) ==
    LET c == call[t]
    IN  /\ c.at = "check"
        /\ Goes(t, IF c.cur = NoNode THEN [c EXCEPT !.at = "detach"]
                 ELSE IF c.cur = handle[t] THEN NoCall
                 ELSE [c EXCEPT !.cur = ParentOf(c.cur)])
        /\ UNCHANGED <<tree, handle, calls, moved, crossed>>

\* removeChild from the old parent
Detach(t) ==
    LET n == handle[t]
        up == ParentOf(n)
    IN  /\ call[t].at = "detach"
        /\ children' = IF up = NoNode THEN children
                       ELSE [children EXCEPT ![up] = Kept(@, Nodes \ {n})]
        /\ moved' = moved \cup {n}
        /\ Goes(t, [call[t] EXCEPT !.at = "snapshot"])
        /\ UNCHANGED <<name, parent, handle, calls, crossed>>

\* getChildren is a copy; what is added to the old node later is not in it
Snapshot(t) == /\ call[t].at = "snapshot"
               /\ Goes(t, [call[t] EXCEPT !.at = "move", !.rest = children[handle[t]]])
               /\ UNCHANGED <<tree, handle, calls, moved, crossed>>

\* setParent and addChild, child by child; the old node keeps its list
MoveChild(t) ==
    LET c == call[t]
        child == Head(c.rest)
    IN  /\ c.at = "move" /\ c.rest # <<>>
        /\ parent' = [parent EXCEPT ![child] = c.target]
        /\ Goes(t, [c EXCEPT !.at = "add"])
        /\ UNCHANGED <<name, children, handle, calls, moved, crossed>>
AddChild(t) ==
    LET c == call[t]
    IN  /\ c.at = "add"
        /\ children' = [children EXCEPT ![c.target] = Append(@, Head(c.rest))]
        /\ Goes(t, [c EXCEPT !.at = "move", !.rest = Tail(c.rest)])
        /\ UNCHANGED <<name, parent, handle, calls, moved, crossed>>

Rebind(t) == /\ call[t].at = "move" /\ call[t].rest = <<>>
             /\ handle' = [handle EXCEPT ![t] = call[t].target]
             /\ Goes(t, NoCall)
             /\ UNCHANGED <<tree, calls, moved, crossed>>

LoggerNext ==
    \E t \in Loggers :
      \/ \E path \in Paths : Begin(t, "lookup", path) \/ Begin(t, "redirect", path)
      \/ Walk(t) \/ Arrive(t) \/ SearchCircle(t) \/ Detach(t) \/ Snapshot(t)
      \/ MoveChild(t) \/ AddChild(t) \/ Rebind(t)

LoggerSpec == LoggerInit /\ [][LoggerNext]_logVars

----------------------------------------------------------------------------
\* logWithOriginatingName: the nodes a message of n passes; a circle is cut off
Climb(n) ==
    LET up[k \in 0 .. Len(name)] == IF k = 0 THEN n
                                    ELSE IF up[k - 1] = NoNode THEN NoNode
                                    ELSE ParentOf(up[k - 1])
    IN  up
Passes(n) ==
    LET steps == {k \in 0 .. Len(name) : Climb(n)[k] # NoNode}
    IN  [k \in 1 .. Cardinality(steps) |-> Climb(n)[k - 1]]

\* As long as no redirect begins while another is under way, or of a node that one
\* has left: what getLogger finds is where it says it is: every node below the root
\* is listed by its parent alone, so its messages pass the nodes of its full name and
\* end in the root, once - also halfway through a redirect, with lookups meanwhile;
\* and no handle, even one to a node that was cut off, sends a message round in a
\* circle. The code does not keep redirects apart, and without it the tree breaks
\* (Logger.cpp:120-145, 158-175, 331-369).
TreeSound ==
    ~crossed =>
      /\ \A n \in InTree : \A i \in 1 .. Len(children[n]) : parent[children[n][i]] = n
      /\ \A n \in InTree : Last(Passes(n)) = Root
      /\ \A n \in InTree \cup {handle[t] : t \in Loggers} : Len(Passes(n)) <= Len(name)
=============================================================================
