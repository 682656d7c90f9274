-------------------------------- MODULE Yaml --------------------------------
(***************************************************************************)
(* The reader of configuration files (utils/yaml.cc): it knows lists and   *)
(* keys by their indentation, and everything is a tree of values.  A line  *)
(* is the number of its leading blanks and its tokens; "-", ":" and "#"    *)
(* are tokens, any other token is a value.                                 *)
(***************************************************************************)
EXTENDS Integers, SequencesExt

Line(ident, text) == [ident |-> ident, text |-> text]

Leaf(value) == [value |-> value, children |-> <<>>]

\* Yaml::clean: without the dash in front and the colon at the end.
Clean(text) ==
  LET item == IF Head(text) = "-" THEN Tail(text) ELSE text
  IN  Head(IF Len(item) > 1 /\ Last(item) = ":" THEN Front(item) ELSE item)

\* Lines that are neither empty nor a comment.
IsRead(line) == line.text # <<>> /\ Head(line.text) # "#"

\* Yaml::scan_ident and process_line: the first indented line is what one level is.
Level(lines, i) ==
  LET indented == {j \in 1 .. i : lines[j].ident > 0}
      ident_len == lines[CHOOSE j \in indented : \A k \in indented : j <= k].ident
  IN  IF lines[i].ident = 0 THEN 0 ELSE lines[i].ident \div ident_len

\* Yaml::add_node: under the last node of the level above.  A line that is deeper than
\* the one before it by two levels has no such node: what happens is undefined, and
\* no file read here has one.
RECURSIVE AddNode(_, _, _)
AddNode(parent, node, level) ==
  IF level = 0 THEN [parent EXCEPT !.children = Append(@, node)]
  ELSE [parent EXCEPT !.children[Len(parent.children)] = AddNode(@, node, level - 1)]

\* Yaml::read; a file that is not there has an empty root.
Read(file) ==
  LET lines == SelectSeq(file, IsRead)
      nodes == [i \in DOMAIN lines |->
                  [node |-> Leaf(Clean(lines[i].text)), level |-> Level(lines, i)]]
      add(root, n) == AddNode(root, n.node, n.level)
  IN  FoldLeft(add, Leaf(""), nodes)

-----------------------------------------------------------------------------
KeyAt(node, key) == {i \in DOMAIN node.children : node.children[i].value = key}

FirstAt(node, key) ==
  node.children[CHOOSE i \in KeyAt(node, key) : \A j \in KeyAt(node, key) : i <= j]

\* Node::get: the first child of that value; where there is none, whatever the last of
\* the children has below it.
RECURSIVE GetOr(_, _, _)
GetOr(node, key, result) ==
  IF KeyAt(node, key) # {} THEN FirstAt(node, key)
  ELSE FoldLeft(LAMBDA found, child : GetOr(child, key, found), result, node.children)

Get(node, key) == GetOr(node, key, Leaf(""))

\* Node::get_value, get_values.
GetValue(node, key) ==
  LET found == Get(node, key) IN IF found.children = <<>> THEN "" ELSE found.children[1].value

GetValues(node, key) ==
  LET found == Get(node, key) IN [i \in DOMAIN found.children |-> found.children[i].value]

\* Node::contains_key: at any depth.
RECURSIVE ContainsKey(_, _)
ContainsKey(node, key) ==
  \/ KeyAt(node, key) # {}
  \/ \E i \in DOMAIN node.children : ContainsKey(node.children[i], key)
=============================================================================
