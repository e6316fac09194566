------------------------------ MODULE Templates ------------------------------
(***************************************************************************)
(* From a template to objects: the text is sanitized (ProcessTemplate:     *)
(* DeindentYAML, SplitYAML, PruneYAML), parsed again and rendered with     *)
(* bindings (RenderTemplate), and given to the caller's objects, returned, *)
(* or written as text (render.go).                                         *)
(*                                                                         *)
(* A line is its leading white space and one of a few texts: nothing, a    *)
(* comment, "---", a field, or a field whose value refers to a binding.    *)
(* Fields with the same white space are siblings, with more are children.  *)
(* External: what YAML makes of lines (Documents to Parses).               *)
(***************************************************************************)
EXTENDS Naturals, FiniteSets, Sequences, SequencesExt

CONSTANTS
    Bodies,     \* templates, as sequences of lines
    Indents,    \* white space put before every line of one
    Calls       \* calls of the Render functions

White == {"space", "tab"}
LinesOf(texts) == [pad : Seq(White), text : texts]
Line == LinesOf({"", "#", "---", "field", "($x)", "value"})

(* binding: x has no value, one, or one that JSON cannot hold; slots: the  *)
(* number of objects given, 0 for none; badSlot: the first of the wrong    *)
(* type, 0 for none.                                                       *)
Call == [kind : {"single", "multiple", "string"}, binding : {"unset", "set", "bad"},
         slots : Nat, badSlot : Nat]

ASSUME TemplatesAssumption ==
    /\ Bodies \subseteq Seq(Line) /\ Indents \subseteq Seq(White)
    /\ Calls \subseteq Call
    /\ \A c \in Calls :
          /\ c.badSlot <= c.slots
          /\ c.kind = "single" => c.slots <= 1
          /\ c.kind = "string" => c.slots = 0

VARIABLES
    body, indent, call,
    pc,
    template,   \* the documents of the sanitized template
    rendered,   \* unstructuredObjs, objs
    objects,    \* the caller's objects
    output,     \* the text returned, or written to the file
    outcome

vars == <<body, indent, call, pc, template, rendered, objects, output, outcome>>

-----------------------------------------------------------------------------
(* The elements of s that are in S, in order. *)
Only(s, S) ==
    LET after[n \in 0..Len(s)] ==
            IF n = 0 THEN <<>>
            ELSE IF s[n] \in S THEN Append(after[n - 1], s[n])
            ELSE after[n - 1]
    IN  after[Len(s)]

Blank(l) == l.text = ""
NonBlank(lines) == Only(lines, LinesOf({"#", "---", "field", "($x)", "value"}))

(* Mutant: the first line's white space is what all have in common. *)
CommonPrefix_First(lines) ==
    IF NonBlank(lines) = <<>> THEN <<>> ELSE NonBlank(lines)[1].pad

(* The white space all lines that are not blank begin with. *)
CommonPrefix(lines) ==
    LET kept == NonBlank(lines)
    IN  IF kept = <<>> THEN <<>> ELSE LongestCommonPrefix({kept[i].pad : i \in DOMAIN kept})

TrimPrefix(l, prefix) ==
    IF IsPrefix(prefix, l.pad)
    THEN [l EXCEPT !.pad = SubSeq(@, Len(prefix) + 1, Len(@))]
    ELSE l

(* Blank lines go, the others lose the white space they share. *)
DeindentYAML(lines) ==
    LET kept == NonBlank(lines)
        prefix == CommonPrefix(lines)
    IN  [i \in DOMAIN kept |-> TrimPrefix(kept[i], prefix)]

-----------------------------------------------------------------------------
(* A separator stands at the beginning of its line; elsewhere "---" is a   *)
(* value.                                                                  *)
Separates(l) == l.text = "---" /\ l.pad = <<>>

AddLine(docs, l) ==
    IF Separates(l) THEN Append(docs, <<>>)
    ELSE [docs EXCEPT ![Len(docs)] = Append(@, l)]

Documents(lines) ==
    LET after[n \in 0..Len(lines)] ==
            IF n = 0 THEN << <<>> >> ELSE AddLine(after[n - 1], lines[n])
    IN  after[Len(lines)]

Content(doc) == Only(doc, LinesOf({"---", "field", "($x)", "value"}))

Level(d, i) == Len(d[i].pad)
Under(d, i) == {j \in 1..(i - 1) : \A k \in (j + 1)..i : Level(d, k) > Level(d, j)}
IsField(d, i) == d[i].text # "---"

(* A field is the first, a first child, or lines up with an earlier one.   *)
(* A value is all there is, or deeper than the field it belongs to.        *)
FieldFits(d, i) ==
    \/ i = 1
    \/ i - 1 \in Under(d, i) /\ IsField(d, i - 1)
    \/ \E j \in 1..(i - 1) : /\ IsField(d, j) /\ Level(d, j) = Level(d, i)
                             /\ \A k \in j..i : Level(d, k) >= Level(d, i)
ValueFits(d, i) ==
    \A j \in 1..(i - 1) :
        IsField(d, j) /\ (\A k \in (j + 1)..i : ~IsField(d, k)) => Level(d, j) < Level(d, i)

WellFormed(d) ==
    \A i \in DOMAIN d : IF IsField(d, i) THEN FieldFits(d, i) ELSE ValueFits(d, i)

(* Tabs cannot indent. *)
Parses(lines) ==
    /\ \A i \in DOMAIN lines : ~Blank(lines[i]) => lines[i].pad \in Seq({"space"})
    /\ LET docs == Documents(lines) IN \A i \in DOMAIN docs : WellFormed(Content(docs[i]))

(* A document without its layout: how deep each line is. *)
Tree(d) ==
    [i \in DOMAIN d |-> [depth |-> Cardinality(Under(d, i)), text |-> d[i].text]]

(* Mutants: a document that begins with a comment is taken for one of      *)
(* comments only; empty documents stay.                                    *)
SplitYAML_FirstLine(lines) ==
    LET kept == Only(Documents(lines), {d \in Seq(Line) : d # <<>> /\ d[1].text # "#"})
    IN  [i \in DOMAIN kept |-> Tree(Content(kept[i]))]

SplitYAML_KeepEmpty(lines) ==
    LET docs == Documents(lines) IN [i \in DOMAIN docs |-> Tree(Content(docs[i]))]

(* The documents that have content, in order. *)
SplitYAML(lines) ==
    LET docs == Documents(lines)
        contents == [i \in DOMAIN docs |-> Content(docs[i])]
        kept == Only(contents, Seq(Line) \ {<<>>})
    IN  [i \in DOMAIN kept |-> Tree(kept[i])]

-----------------------------------------------------------------------------
Text == [i \in DOMAIN body |-> [body[i] EXCEPT !.pad = indent \o @]]

Untouched == <<>>

Finish(how) == pc' = "done" /\ outcome' = how

(* ProcessTemplate: sanitized, and not empty then. *)
ProcessTemplate ==
    /\ pc = "process"
    /\ LET clean == DeindentYAML(Text)
       IN  IF Parses(clean) /\ SplitYAML(clean) # <<>>
           THEN pc' = "render" /\ template' = SplitYAML(clean) /\ UNCHANGED outcome
           ELSE Finish("args") /\ UNCHANGED template
    /\ UNCHANGED <<body, indent, call, rendered, objects, output>>

Refers(tree) == \E i \in DOMAIN tree : tree[i].text = "($x)"
IsObject(tree) == tree[1].text # "---"

RenderTree(tree) ==
    [i \in DOMAIN tree |-> [tree[i] EXCEPT !.text = IF @ = "($x)" THEN "value" ELSE @]]

(* RenderTemplate: every document is an object and finds its bindings;     *)
(* RenderTemplateSingle: there is one.                                     *)
Renders ==
    /\ \A i \in DOMAIN template :
          IsObject(template[i]) /\ (Refers(template[i]) => call.binding # "unset")
    /\ call.kind = "single" => Len(template) = 1

(* Mutant: the objects are not counted. *)
Render_Uncounted ==
    /\ pc = "render"
    /\ IF call.binding = "bad" \/ ~Renders
       THEN Finish("template") /\ UNCHANGED rendered
       ELSE /\ rendered' = [i \in DOMAIN template |-> RenderTree(template[i])]
            /\ pc' = "save" /\ UNCHANGED outcome
    /\ UNCHANGED <<body, indent, call, template, objects, output>>

(* A binding that JSON cannot hold is refused, whether or not the template *)
(* uses it; then all documents are rendered, then the objects counted.     *)
Render ==
    /\ pc = "render"
    /\ IF call.binding = "bad" THEN Finish("bindings") /\ UNCHANGED rendered
       ELSE IF ~Renders THEN Finish("template") /\ UNCHANGED rendered
       ELSE /\ rendered' = [i \in DOMAIN template |-> RenderTree(template[i])]
            /\ IF call.slots \in {0, Len(template)}
               THEN pc' = "save" /\ UNCHANGED outcome
               ELSE Finish("length")
    /\ UNCHANGED <<body, indent, call, template, objects, output>>

(* The objects are given one after the other, up to one of the wrong type; *)
(* without objects new ones are returned.                                  *)
Save ==
    /\ pc = "save" /\ call.kind \in {"single", "multiple"}
    /\ objects' = IF call.slots = 0 THEN rendered
                  ELSE [i \in DOMAIN objects |->
                           IF i <= Len(rendered) /\ (call.badSlot = 0 \/ i < call.badSlot)
                           THEN rendered[i] ELSE Untouched]
    /\ Finish(IF call.badSlot = 0 THEN "ok" ELSE "save")
    /\ UNCHANGED <<body, indent, call, template, rendered, output>>

(* A rendered object as lines, and the separator before all but the first. *)
Printed(tree) ==
    [i \in DOMAIN tree |-> [pad |-> [d \in 1..tree[i].depth |-> "space"],
                            text |-> tree[i].text]]
Bar == [pad |-> <<>>, text |-> "---"]
EmptyLine == [pad |-> <<>>, text |-> ""]

(* Mutant: no separators are written. *)
RenderToString_NoBars ==
    /\ pc = "save" /\ call.kind = "string"
    /\ output' = FlattenSeq([i \in DOMAIN rendered |->
                                 Printed(rendered[i]) \o <<EmptyLine>>])
    /\ Finish("ok")
    /\ UNCHANGED <<body, indent, call, template, rendered, objects>>

(* RenderToString, and what RenderToFile writes. *)
RenderToString ==
    /\ pc = "save" /\ call.kind = "string"
    /\ output' = FlattenSeq([i \in DOMAIN rendered |->
                     (IF i > 1 THEN <<Bar>> ELSE <<>>)
                     \o Printed(rendered[i]) \o <<EmptyLine>>])
    /\ Finish("ok")
    /\ UNCHANGED <<body, indent, call, template, rendered, objects>>

-----------------------------------------------------------------------------
Init ==
    /\ body \in Bodies /\ indent \in Indents /\ call \in Calls
    /\ pc = "process"
    /\ template = <<>> /\ rendered = <<>>
    /\ objects = [i \in 1..call.slots |-> Untouched]
    /\ output = <<>>
    /\ outcome = "none"

Next == ProcessTemplate \/ Render \/ Save \/ RenderToString

Spec == Init /\ [][Next]_vars
-----------------------------------------------------------------------------
Trees == Seq([depth : Nat, text : {"---", "field", "($x)", "value"}])

(* Types; no document is empty (SplitYAML). *)
TemplatesTypeOK ==
    /\ body \in Bodies /\ indent \in Indents /\ call \in Calls
    /\ pc \in {"process", "render", "save", "done"}
    /\ {template, rendered, objects} \subseteq Seq(Trees)
    /\ \A docs \in {template, rendered} : \A i \in DOMAIN docs : docs[i] # <<>>
    /\ output \in Seq(Line)
    /\ outcome \in {"none", "ok", "args", "bindings", "template", "length", "save"}

(* Indenting a whole template, with spaces or tabs, changes nothing: it is *)
(* read as it would be without, blank lines and lines before the first     *)
(* document included (DeindentYAML, util.go:329).                          *)
IndentIrrelevant ==
    pc # "process" /\ (\E i \in DOMAIN body : ~Blank(body[i]) /\ body[i].pad = <<>>)
    => IF Parses(body) /\ SplitYAML(body) # <<>>
       THEN outcome # "args" /\ template = SplitYAML(body)
       ELSE outcome = "args"

(* Sanitizing loses no field and moves none, whatever comments, empty      *)
(* documents and separators stand around it (PruneYAML, util.go:424).      *)
FieldsKept ==
    pc # "process" /\ outcome # "args" =>
        LET fields == {"field", "($x)"}
            read == Only(FlattenSeq(template), [depth : Nat, text : fields])
            given == Only(body, LinesOf(fields))
        IN  [i \in DOMAIN read |-> read[i].text] = [i \in DOMAIN given |-> given[i].text]

(* Text that was rendered is a manifest of the same documents (README:     *)
(* RenderToString and RenderToFile), wherever "---" occurs in them.        *)
OutputReadsBack ==
    outcome = "ok" /\ call.kind = "string" =>
        Parses(DeindentYAML(output)) /\ SplitYAML(DeindentYAML(output)) = rendered

(* No object is touched before every document is rendered and the objects  *)
(* are counted; then they are filled in the order of the documents, and    *)
(* all of them unless one is of the wrong type (render.go:207 to 231).     *)
ObjectsComeWhole ==
    /\ outcome \notin {"ok", "save"} => \A i \in DOMAIN objects : objects[i] = Untouched
    /\ \A i \in DOMAIN objects : objects[i] # Untouched =>
          /\ \A j \in 1..i : objects[j] = RenderTree(template[j])
          /\ Len(objects) = Len(template)
    /\ outcome = "ok" /\ call.kind # "string" =>
          /\ Len(objects) = Len(template)
          /\ \A i \in DOMAIN objects : objects[i] # Untouched
=============================================================================
