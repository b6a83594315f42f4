------------------------------- MODULE Gabow -------------------------------
(* Gabow's path-based search for strongly connected components, as          *)
(* coln-query runs it over the dependency graph of a program's predicates.  *)
(* Node u depends on each node of adj[u]. The explicit depth-first stack is  *)
(* `stack', a sequence of [node, next], `next' counting the successors       *)
(* walked. Nodes and preorder numbers start at 1 and 0 stands for None.      *)
EXTENDS Integers, Sequences, FiniteSets

VARIABLES adj, preorder, component, counter, path, roots, stack, sccs, root

search == <<adj, preorder, component, counter, path, roots, stack, sccs, root>>

Nodes == DOMAIN adj

Top(s) == s[Len(s)]
Pop(s) == SubSeq(s, 1, Len(s) - 1)

SearchInit(graph) ==
    /\ adj = graph
    /\ preorder = [u \in Nodes |-> 0]
    /\ component = [u \in Nodes |-> 0]
    /\ counter = 0
    /\ path = <<>>
    /\ roots = <<>>
    /\ stack = <<>>
    /\ sccs = <<>>
    /\ root = 1

\* Number `node' and push it on the path, the candidate roots and `frames'.
Discover(node, frames) ==
    /\ counter' = counter + 1
    /\ preorder' = [preorder EXCEPT ![node] = counter + 1]
    /\ path' = Append(path, node)
    /\ roots' = Append(roots, node)
    /\ stack' = Append(frames, [node |-> node, next |-> 1])
    /\ UNCHANGED <<adj, component, sccs>>

\* The search from a root nobody has reached yet ...
Start ==
    /\ stack = <<>>
    /\ root \in Nodes
    /\ preorder[root] = 0
    /\ Discover(root, stack)
    /\ UNCHANGED root

\* ... and the next root, once the search from this one is over.
NextRoot ==
    /\ stack = <<>>
    /\ root \in Nodes
    /\ preorder[root] # 0
    /\ root' = root + 1
    /\ UNCHANGED <<adj, preorder, component, counter, path, roots, stack, sccs>>

Frame == Top(stack)
HasSuccessor == stack # <<>> /\ Frame.next <= Len(adj[Frame.node])
Successor == adj[Frame.node][Frame.next]
Advanced == Append(Pop(stack), [Frame EXCEPT !.next = @ + 1])

\* A tree edge into unexplored territory.
WalkTree ==
    /\ HasSuccessor
    /\ preorder[Successor] = 0
    /\ Discover(Successor, Advanced)
    /\ UNCHANGED root

\* Mutant: the candidate roots on the cycle stay.
WalkContractKeeps ==
    /\ HasSuccessor
    /\ preorder[Successor] # 0
    /\ component[Successor] = 0
    /\ stack' = Advanced
    /\ UNCHANGED <<adj, preorder, component, counter, path, roots, sccs, root>>

\* A back or cross edge into an undecided node: the candidate roots younger
\* than it lie on a cycle with it. The roots are in preorder, so popping the
\* younger ones leaves the older ones.
WalkContract ==
    /\ HasSuccessor
    /\ preorder[Successor] # 0
    /\ component[Successor] = 0
    /\ roots' = SelectSeq(roots, LAMBDA r : preorder[r] <= preorder[Successor])
    /\ stack' = Advanced
    /\ UNCHANGED <<adj, preorder, component, counter, path, sccs, root>>

\* An edge into a finished component.
WalkFinished ==
    /\ HasSuccessor
    /\ component[Successor] # 0
    /\ stack' = Advanced
    /\ UNCHANGED <<adj, preorder, component, counter, path, roots, sccs, root>>

Position(node) == CHOOSE i \in DOMAIN path : path[i] = node

\* A node whose successors are walked and that is no candidate root any more.
CloseMember ==
    /\ stack # <<>>
    /\ ~HasSuccessor
    /\ (roots = <<>> \/ Top(roots) # Frame.node)
    /\ stack' = Pop(stack)
    /\ UNCHANGED <<adj, preorder, component, counter, path, roots, sccs, root>>

\* One that still is: the path from it on is a component.
CloseRoot ==
    /\ stack # <<>>
    /\ ~HasSuccessor
    /\ roots # <<>>
    /\ Top(roots) = Frame.node
    /\ LET start == Position(Frame.node)
           members == SubSeq(path, start, Len(path))
       IN /\ component' = [u \in Nodes |-> IF \E i \in DOMAIN members : members[i] = u
                                           THEN Len(sccs) + 1 ELSE component[u]]
          /\ sccs' = Append(sccs, members)
          /\ path' = SubSeq(path, 1, start - 1)
    /\ roots' = Pop(roots)
    /\ stack' = Pop(stack)
    /\ UNCHANGED <<adj, preorder, counter, root>>

Decided == stack = <<>> /\ root = Len(adj) + 1

SearchNext ==
    \/ Start
    \/ NextRoot
    \/ WalkTree
    \/ WalkContract
    \/ WalkFinished
    \/ CloseMember
    \/ CloseRoot

============================================================================
