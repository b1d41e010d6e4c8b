---------------------------- MODULE FileCatalog ----------------------------
(***************************************************************************)
(* What the store promises about file ids: for every version a catalogue   *)
(* of files that is only ever added to, in which a path has one id and an  *)
(* id has one path.  Rows of other tables refer to files by these ids, so  *)
(* an entry, once there, must never change its meaning.                    *)
(***************************************************************************)
CONSTANTS Versions, Paths, Ids

VARIABLE rows

OneToOne(R) == \A r, s \in R : r.path = s.path <=> r.id = s.id

Init == rows = [v \in Versions |-> {}]

\* one commit adds entries to the catalogue of one version
Add(v) ==
  /\ rows[v] \subseteq rows'[v]
  /\ rows'[v] \subseteq [id : Ids, path : Paths]
  /\ OneToOne(rows'[v])
  /\ rows' = [rows EXCEPT ![v] = rows'[v]]

Next == \E v \in Versions : Add(v)

Spec == Init /\ [][Next]_rows
=============================================================================
