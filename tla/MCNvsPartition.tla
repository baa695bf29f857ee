--------------------------- MODULE MCNvsPartition ---------------------------
(* Values of the constants for the runs of NvsPartition. *)
EXTENDS NvsPartition, FiniteSets

Space == [type |-> "namespace", key |-> "mqtt", size |-> 0, wide |-> 0, flaw |-> "none"]
Plain(type, key, n) == [type |-> type, key |-> key, size |-> n, wide |-> 0, flaw |-> "none"]
Wide(type, key, n, w) == [Plain(type, key, n) EXCEPT !.wide = w]

Names == {"broker", "port"}

(* Sizes around those that fill a page of four entries.                     *)
Rows ==
  {Plain("primitive", k, 0) : k \in Names}
  \cup {Plain("string", k, n) : k \in Names, n \in {1, 33, 64}}
  \cup {Plain("blob", k, n) : k \in Names, n \in {0, 1, 32, 64, 65, 96, 97, 200}}
  \cup {Plain("namespace", "settings", 0)}

(* Rows that stop the tool. *)
BadRows ==
  {Plain("string", "broker", 96), Plain("string", "port", 97), Plain("string", "long", 1),
   Plain("namespace", "third", 0),
   [Plain("blob", "broker", 3) EXCEPT !.flaw = "input"],
   [Plain("primitive", "broker", 0) EXCEPT !.flaw = "value"],
   [Plain("primitive", "port", 0) EXCEPT !.flaw = "range"]}

(* Two-byte characters: in the entries counted, in one more, past the page. *)
WideRows ==
  {Wide("string", "broker", 33, 20), Wide("string", "broker", 33, 32),
   Wide("string", "broker", 64, 63), Wide("blob", "broker", 65, 33), Wide("blob", "broker", 96, 96)}

(* In a namespace, a key is there once; a namespace is declared once. *)
Distinct(rows) ==
  \A i, j \in DOMAIN rows :
    i < j /\ rows[i].key = rows[j].key =>
      \E n \in i + 1..j - 1 : rows[n].type = "namespace"

Files ==
  {s \in {<<Space>> \o t : t \in UNION {[1..n -> Rows] : n \in 0..3}} : Distinct(s)}

Call(rows, version, n, keys) ==
  [rows |-> rows, version |-> version, size |-> n * PageSize, named |-> TRUE,
   command |-> IF keys = {} THEN "generate" ELSE "encrypt", keys |-> keys, hmac |-> "no"]

ShortFiles == {f \in Files : Len(f) < 4}

(* Files that stop the tool, also when a page is needed. *)
BadFiles ==
  {f \in {<<Space, a, b>> : a \in BadRows \cup Rows, b \in BadRows} : Distinct(f)}

(* Files with one of them, before or after another row. *)
WideFiles ==
  {f \in {<<Space>> \o t : t \in {<<a, w>> : a \in Rows, w \in WideRows}
                              \cup {<<w, a>> : a \in Rows, w \in WideRows}} : Distinct(f)}

SmallInputs ==
  {Call(f, v, 4, {}) : f \in WideFiles, v \in {1, 2}}
  \cup {Call(f, 2, 5, {"keygen"}) : f \in WideFiles}
  \cup {Call(f, 2, 4, {}) : f \in Files}
  \cup {Call(f, 1, 3, {}) : f \in ShortFiles}
  \cup {Call(f, 2, 5, {k}) : f \in ShortFiles, k \in {"keygen", "inputkey"}}
  \cup {Call(f, 2, 3, {}) : f \in BadFiles}
  \cup {[Call(<<Space>>, 2, 4, {"keygen"}) EXCEPT !.hmac = h] : h \in {"made", "given", "missing"}}
  \cup {[Call(<<>>, 2, 0, {}) EXCEPT !.command = "generate-key"]}
  \cup {Call(<<Space>>, 2, 2, {}), Call(<<Space>>, 2, 3, {"keygen", "inputkey"}),
        [Call(<<Space>>, 2, 4, {}) EXCEPT !.size = @ - 1],
        [Call(<<Space>>, 2, 4, {}) EXCEPT !.named = FALSE],
        [Call(<<Space>>, 2, 4, {"keygen"}) EXCEPT !.keys = {}]}

SmallLimits == <<64, 96>>
=============================================================================
