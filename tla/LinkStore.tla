------------------------------ MODULE LinkStore ------------------------------
(***************************************************************************)
(* The link graph as graph.Graph promises it, in the form in which         *)
(* src/graph/store/cdb/cdb.go states it: two tables, with a unique URL, a  *)
(* unique (src, dst) and foreign keys from edges to links, and one SQL     *)
(* statement for each operation.  A statement that fails changes nothing.  *)
(*                                                                         *)
(* Times are natural numbers; 0 is the zero time.Time of a link that was   *)
(* never retrieved.                                                        *)
(***************************************************************************)
EXTENDS Naturals

CONSTANTS URL, LinkID, EdgeID, MaxTime     \* MaxTime: bound of the clock

Time == 0..MaxTime

VARIABLES links,   \* rows [id, url, retrieved]
          edges,   \* rows [id, src, dst, updated]
          now      \* the clock that NOW() reads

vars == <<links, edges, now>>

LinkRow == [id : LinkID, url : URL, retrieved : Nat]
EdgeRow == [id : EdgeID, src : LinkID, dst : LinkID, updated : Nat]

TypeOK ==
    /\ links \subseteq LinkRow
    /\ edges \subseteq EdgeRow
    /\ now \in Nat

Init ==
    /\ links = {}
    /\ edges = {}
    /\ now = 0

(* GREATEST(links.retrieved_at, $2).                                       *)
Later(s, t) == IF s > t THEN s ELSE t

(* INSERT INTO links ... ON CONFLICT (url) DO UPDATE retrieved_at=GREATEST *)
UpsertLink(url, retrieved) ==
    /\ \/ \E row \in links :
             /\ row.url = url
             /\ links' = (links \ {row})
                         \union {[row EXCEPT !.retrieved = Later(@, retrieved)]}
       \/ /\ \A row \in links : row.url # url
          /\ \E id \in LinkID :
                /\ \A row \in links : row.id # id
                /\ links' = links \union {[id |-> id, url |-> url, retrieved |-> retrieved]}
    /\ UNCHANGED <<edges, now>>

Known(id) == \E row \in links : row.id = id

(* CONSTRAINT edge_links UNIQUE(src,dst).                                  *)
Conflicts(row, src, dst) == row.src = src /\ row.dst = dst

(* INSERT INTO edges ... ON CONFLICT (src, dst) DO UPDATE updated_at=NOW() *)
UpsertEdge(src, dst) ==
    /\ Known(src) /\ Known(dst)
    /\ \/ \E row \in edges :
             /\ Conflicts(row, src, dst)
             /\ edges' = (edges \ {row}) \union {[row EXCEPT !.updated = now]}
       \/ /\ \A row \in edges : ~Conflicts(row, src, dst)
          /\ \E id \in EdgeID :
                /\ \A row \in edges : row.id # id
                /\ edges' = edges \union {[id |-> id, src |-> src, dst |-> dst, updated |-> now]}
    /\ UNCHANGED <<links, now>>

(* DELETE FROM edges WHERE src=... AND updated_at < ...                    *)
RemoveStaleEdges(src, before) ==
    /\ edges' = {row \in edges : ~(row.src = src /\ row.updated < before)}
    /\ UNCHANGED <<links, now>>

Tick ==
    /\ now < MaxTime
    /\ now' = now + 1
    /\ UNCHANGED <<links, edges>>

Next ==
    \/ \E url \in URL, t \in Time : UpsertLink(url, t)
    \/ \E src, dst \in LinkID : UpsertEdge(src, dst)
    \/ \E src \in LinkID, t \in Time : RemoveStaleEdges(src, t)
    \/ Tick

Spec == Init /\ [][Next]_vars
=============================================================================
