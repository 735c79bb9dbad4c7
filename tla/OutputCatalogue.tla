--------------------------- MODULE OutputCatalogue ---------------------------
(***************************************************************************)
(* What the rest of the program may rely on, whatever fails: an output is  *)
(* registered once and for good, a content only ever names a registered    *)
(* output, and an original is only given up for a registered output.       *)
(***************************************************************************)
CONSTANTS Jobs, Media, Targets, MediaOf, Null

VARIABLES
  registered, \* jobs whose output has its MediaFile row
  link,       \* link[t][k]: job whose output the column k of t names
  kept        \* originals that are stored

catalogueVars == <<registered, link, kept>>

Columns == {"processed", "remuxed"}

CatalogueInit ==
  /\ registered = {}
  /\ link = [t \in Targets |-> [k \in Columns |-> Null]]
  /\ kept = Media

Register(j) ==
  /\ j \notin registered
  /\ registered' = registered \cup {j}
  /\ UNCHANGED <<link, kept>>

Attach(j, t, k) ==
  /\ j \in registered
  /\ link' = [link EXCEPT ![t][k] = j]
  /\ UNCHANGED <<registered, kept>>

GiveUp(m) ==
  /\ \E j \in registered : MediaOf[j] = m
  /\ kept' = kept \ {m}
  /\ UNCHANGED <<registered, link>>

CatalogueNext ==
  \/ \E j \in Jobs : Register(j)
  \/ \E j \in Jobs, t \in Targets, k \in Columns : Attach(j, t, k)
  \/ \E m \in Media : GiveUp(m)

CatalogueSpec == CatalogueInit /\ [][CatalogueNext]_catalogueVars
=============================================================================
