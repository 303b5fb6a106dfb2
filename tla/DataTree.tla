------------------------------- MODULE DataTree -------------------------------
(***************************************************************************)
(* The trees that the configuration, the bookmarks and the sessions are    *)
(* written to and read from (util/DataTree.cpp): what becomes of a value   *)
(* on its way into the XML file and back.                                  *)
(*                                                                         *)
(* A text is abstracted to what decodeXMLText() tells apart: its "shape"   *)
(* (the first of the character sets it consists of), the number it reads   *)
(* as or its identity ("is"), and its "form": "plain" for a text as the    *)
(* program prints it, "fixed" for a decimal as std::to_string prints it    *)
(* and "odd" for every other spelling (leading zeros, dotted addresses,    *)
(* runs of spaces).  A wide text is written percent-encoded.  Floats are   *)
(* counted in tenths.  The whole tree is built, written and read back      *)
(* within one call, so that a node here is what stands for it in the file. *)
(* The vectors of a DataElement and its attributes' other types are not    *)
(* modelled: no caller in the program stores them.                         *)
(***************************************************************************)
EXTENDS Integers, Sequences, SequencesExt

Shapes == {"none", "digits", "decimal", "list", "hex", "other"}

Text == [shape : Shapes, is : Int, form : {"plain", "fixed", "odd"}, wide : BOOLEAN]

Plain(shape, is) == [shape |-> shape, is |-> is, form |-> "plain", wide |-> FALSE]

NoText == Plain("none", 0)

Digits(n) == Plain("digits", n)

Wide(t) == [t EXCEPT !.wide = t.shape # "none"]

-----------------------------------------------------------------------------
(* Values.  An element is a DataElement: its type, its number, its text.   *)

IntElement(n) == [type |-> "int", n |-> n, text |-> NoText]

FloatElement(tenths) == [type |-> "float", n |-> tenths, text |-> NoText]

TextElement(type, t) == [type |-> type, n |-> 0, text |-> t]

\* What nodeToXML writes for a value: a float that is whole is written without a point.
NodeToXML(e) ==
    CASE e.type = "int" -> Digits(e.n)
      [] e.type = "float" -> IF e.n % 10 = 0 THEN Digits(e.n \div 10) ELSE Plain("decimal", e.n)
      [] e.type = "wstring" -> Wide(e.text)
      [] OTHER -> e.text

\* TinyXML condenses the white space of the texts it reads.
AsParsed(t) == IF t.shape = "other" /\ t.form = "odd" THEN [t EXCEPT !.form = "plain"] ELSE t

\* The type of a value is guessed anew from the characters of its text.  A text of hexadecimal
\* digits without a percent sign decodes to something that is not that text.
DecodeXMLText(t) ==
    IF t.wide THEN TextElement("wstring", [t EXCEPT !.wide = FALSE])
    ELSE CASE t.shape = "none" -> TextElement("null", NoText)
           [] t.shape = "digits" -> IntElement(t.is)
           [] t.shape = "decimal" -> FloatElement(t.is)
           [] t.shape = "list" -> TextElement("vector", NoText)
           [] t.shape = "hex" -> TextElement("wstring", Plain("other", -1))
           [] t.shape = "other" -> TextElement("string", AsParsed(t))

\* The first letter of a text: all that toString() returns of a wide one.
FirstLetter(t) == IF t.shape = "none" THEN NoText ELSE Plain("other", -2)

\* A vector has no text.
ElementToString(e) ==
    CASE e.type = "int" -> Digits(e.n)
      [] e.type = "float" -> [Plain("decimal", e.n) EXCEPT !.form = "fixed"]
      [] e.type = "wstring" -> FirstLetter(e.text)
      [] OTHER -> e.text

\* get(std::string&) and get(std::wstring&) throw for values of any other type.
IsString(e) == e.type \in {"string", "null"}

IsWideString(e) == e.type \in {"wstring", "null"}

\* get() of a number: an int is read as a float and a float as an int, which cuts it; a text
\* leaves the caller's variable as it was.
GetInt(e, default) ==
    CASE e.type = "int" -> e.n
      [] e.type = "float" -> e.n \div 10
      [] OTHER -> default

GetFloat(e, default) ==
    CASE e.type = "int" -> 10 * e.n
      [] e.type = "float" -> e.n
      [] OTHER -> default

-----------------------------------------------------------------------------
(* Nodes.                                                                  *)

Leaf(name, e) == [name |-> name, text |-> NodeToXML(e), children |-> <<>>]

Branch(name, children) == [name |-> name, text |-> NoText, children |-> children]

\* Flags are stored as 1 and 0, texts as they are.
FlagLeaf(name, b) == Leaf(name, IntElement(IF b THEN 1 ELSE 0))

TextLeaf(name, t) == Leaf(name, TextElement("string", t))

WideLeaf(name, t) == Leaf(name, TextElement("wstring", t))

\* The nodes that hasAnother(name) and getNext(name) visit, in order.
ChildrenNamed(node, name) == SelectSeq(node.children, LAMBDA c : c.name = name)

HasAnother(node, name) == ChildrenNamed(node, name) # <<>>

GetNext(node, name) == ChildrenNamed(node, name)[1]

Element(node) == DecodeXMLText(node.text)

\* How load() reads most of its values: a child that is not there leaves the default.
IntAt(node, name, default) ==
    IF HasAnother(node, name) THEN GetInt(Element(GetNext(node, name)), 0) ELSE default

FloatAt(node, name, default) ==
    IF HasAnother(node, name) THEN GetFloat(Element(GetNext(node, name)), 0) ELSE default

FlagAt(node, name, default) == IF HasAnother(node, name) THEN IntAt(node, name, 0) # 0 ELSE default

TextAt(node, name, default) ==
    IF HasAnother(node, name) THEN ElementToString(Element(GetNext(node, name))) ELSE default

-----------------------------------------------------------------------------
(* Files.  SaveFile() empties the file before it writes: a program that    *)
(* ends in between leaves a file without a root.                           *)

NoFile == <<>>

TornFile == <<Branch("", <<>>)>>

SaveToFileXML(root) == <<root>>

\* LoadFromFileXML() answers whether the file is there and has a root.
IsLoadable(file) == file # NoFile /\ file # TornFile

Root(file) == IF IsLoadable(file) THEN file[1] ELSE Branch("", <<>>)

\* The texts that are returned by toString() as they were stored.
ReturnsAsText(t) ==
    \/ t.shape \in {"none", "digits", "other"} /\ t.form = "plain"
    \/ t.shape = "decimal" /\ t.form = "fixed"
=============================================================================
