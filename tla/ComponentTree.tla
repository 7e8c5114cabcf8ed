---------------------------- MODULE ComponentTree ----------------------------
(***************************************************************************)
(* The algorithms behind the component tree of the lsp role                *)
(* (cmd/agent-role/lsp/main.go): the scanners that find bodies and tags in *)
(* source text, and the expansion of declarations through calls and        *)
(* imports.  Every bounded input is one behaviour: chosen at the start,    *)
(* then computed.                                                          *)
(***************************************************************************)
EXTENDS Integers, Sequences, FiniteSets, SequencesExt

CONSTANTS
    TextN,     \* bound: length of a source text
    TagN,      \* bound: tags in a body
    Nodes,     \* declarations, each <<file, name>>
    Broad,     \* bound: the declaration whose body holds up to BodyN tags, not one
    BodyN,     \* bound: tags in that body
    MaxDepth   \* maxDepth

ASSUME TreeAssumption == TextN \in Nat /\ TagN \in Nat /\ Broad \in Nodes /\ BodyN \in Nat /\ MaxDepth \in Nat \ {0}

VARIABLES given, answer
treeVars == <<given, answer>>

Texts(alphabet, n) == UNION {[1 .. k -> alphabet] : k \in 0 .. n}

-----------------------------------------------------------------------------
(* Text: the file up to the end of a declaration's range, and the place     *)
(* after its name, from which its body is looked for.  A character is a     *)
(* brace, a parenthesis (a bracket counts like one), one of two kinds of    *)
(* quote, a backslash or one of the two of comments.                        *)

Quotes == {"single", "double"}
Characters == Quotes \union {"{", "}", "(", ")", "\\", "/", "*"}

At(text, i) == IF i \in DOMAIN text THEN text[i] ELSE "end"
Past(text) == Len(text) + 1
First(places) == CHOOSE k \in places : \A j \in places : k <= j
Sooner(x, y) == IF x < y THEN x ELSE y

\* The place after the string whose text begins at i.
StringEnd(text, i, quote) ==
    LET from[k \in 1 .. Past(text)] ==
          IF k = Past(text) THEN k
          ELSE IF text[k] = "\\" THEN from[Sooner(k + 2, Past(text))]
          ELSE IF text[k] = quote THEN k + 1 ELSE from[k + 1]
    IN  from[Sooner(i, Past(text))]

\* The place after the block comment whose text begins at i.
CommentEnd(text, i) ==
    LET ends == {k \in i .. Len(text) - 1 : text[k] = "*" /\ text[k + 1] = "/"}
    IN  IF ends = {} THEN Past(text) ELSE First(ends) + 2

\* Slip: an escaped quote ends its string.
SkipIgnoringEscapes(text, i) ==
    LET ends == {k \in i + 1 .. Len(text) : text[k] = text[i]}
    IN  IF At(text, i) \notin Quotes THEN i
        ELSE IF ends = {} THEN Past(text) ELSE First(ends) + 1

\* skipStringOrComment; there are no line ends, so a line comment runs to the end.
skipStringOrComment(text, i) ==
    IF At(text, i) \in Quotes THEN StringEnd(text, i + 1, text[i])
    ELSE IF At(text, i) = "/" /\ At(text, i + 1) = "/" THEN Past(text)
    ELSE IF At(text, i) = "/" /\ At(text, i + 1) = "*" THEN CommentEnd(text, i + 2)
    ELSE i

\* findMatchingBrace from the brace at open; 0 when there is none.
findMatchingBrace(text, open) ==
    LET from[k \in 1 .. Past(text), depth \in 0 .. Len(text)] ==
          IF k = Past(text) THEN 0
          ELSE LET next == skipStringOrComment(text, k)
               IN  IF next # k THEN from[next, depth]
                   ELSE IF text[k] = "{" THEN from[k + 1, depth + 1]
                   ELSE IF text[k] # "}" THEN from[k + 1, depth]
                   ELSE IF depth = 1 THEN k ELSE from[k + 1, depth - 1]
    IN  from[open, 0]

\* findOpeningBodyBrace: the first brace after start outside of parentheses opened since;
\* 0 when there is none.
findOpeningBodyBrace(text, start) ==
    LET from[k \in 1 .. Past(text), depth \in 0 .. Len(text)] ==
          IF k = Past(text) THEN 0
          ELSE LET next == skipStringOrComment(text, k)
               IN  IF next # k THEN from[next, depth]
                   ELSE IF text[k] = "{" /\ depth = 0 THEN k
                   ELSE from[k + 1, IF text[k] = "(" THEN depth + 1
                                    ELSE IF text[k] = ")" /\ depth > 0 THEN depth - 1 ELSE depth]
    IN  from[start, 0]

Escaped(quote) == "escaped " \o quote

\* What the masking scanner takes the character at upTo for, reading from the start of
\* the file.
Mode(text, upTo) ==
    LET mode[k \in 1 .. Past(text)] ==
          IF k = 1 THEN "code"
          ELSE LET was == mode[k - 1]
                   c == text[k - 1]
               IN  CASE was = "code" /\ c \in Quotes -> c
                     [] was = "code" /\ c = "/" /\ At(text, k) = "/" -> "line"
                     [] was = "code" /\ c = "/" /\ At(text, k) = "*" -> "opening"
                     [] was \in Quotes /\ c = "\\" -> Escaped(was)
                     [] was \in Quotes /\ c # "\\" -> IF c = was THEN "code" ELSE was
                     [] \E q \in Quotes : was = Escaped(q) -> CHOOSE q \in Quotes : was = Escaped(q)
                     [] was \in {"opening", "block"} -> IF was = "block" /\ c = "*" /\ At(text, k) = "/" THEN "closing" ELSE "block"
                     [] was = "line" -> "line"
                     [] OTHER -> "code"
    IN  mode[upTo]

\* maskNonCode: strings and comments are blanked, the quotes stay, and so does the
\* last character of a comment that is not closed.
maskNonCode(text) ==
    LET opens(k) == text[k] = "/" /\ At(text, k + 1) \in {"/", "*"}
        kept(k) == \/ Mode(text, k) = "code" /\ ~opens(k)
                   \/ Mode(text, k) = text[k]
                   \/ Mode(text, k) = "block" /\ k = Len(text)
    IN  [k \in DOMAIN text |-> IF kept(k) THEN text[k] ELSE "blank"]

\* assignBodyRanges: the body found for a declaration whose name ends before start.
Body(text, start) ==
    LET open == findOpeningBodyBrace(text, start)
    IN  [open |-> open, close |-> IF open = 0 THEN 0 ELSE findMatchingBrace(text, open)]

-----------------------------------------------------------------------------
(* Tags: those of components "A" and "B", closed again, and those the      *)
(* scanner takes type arguments for, which no tag closes.                  *)

Tag(kind, name) == [kind |-> kind, name |-> name]
Tags == {Tag(k, n) : k \in {"open", "close"}, n \in {"A", "B"}} \union {Tag("self", "A"), Tag("open", "T")}

\* popJSXStack: down to the last of that name, or not at all.
popJSXStack(stack, tags, name) ==
    LET hits == {i \in DOMAIN stack : tags[stack[i]].name = name}
    IN  IF hits = {} THEN stack ELSE SubSeq(stack, 1, (CHOOSE i \in hits : \A j \in hits : j <= i) - 1)

\* scanJSXTree: the parent of every tag that opens, 0 for a root.
scanJSXTree(tags) ==
    LET scan[k \in 0 .. Len(tags)] ==
          IF k = 0 THEN [stack |-> <<>>, parent |-> <<>>]
          ELSE LET before == scan[k - 1]
                   top == IF before.stack = <<>> THEN 0 ELSE Last(before.stack)
               IN  IF tags[k].kind = "close"
                   THEN [stack |-> popJSXStack(before.stack, tags, tags[k].name), parent |-> Append(before.parent, 0)]
                   ELSE [stack |-> IF tags[k].kind = "open" THEN Append(before.stack, k) ELSE before.stack,
                         parent |-> Append(before.parent, top)]
    IN  scan[Len(tags)].parent

-----------------------------------------------------------------------------
(* Declarations: which of their own file they call, and the tags of their  *)
(* bodies, each with the tag it stands in.  A tag of the name of another   *)
(* file's declaration is imported from there.                              *)

File(n) == n[1]
Mates(n) == {o \in Nodes : o # n /\ File(o) = File(n)}

\* The tags around each, when parents is the tag each stands in, 0 for none.
Around(parents) ==
    LET up[i \in 0 .. Len(parents)] == IF i = 0 \/ parents[i] = 0 THEN {} ELSE {parents[i]} \union up[parents[i]]
    IN  up

\* The bodies with up to k tags, as scanJSXTree takes them in: a tag stands in the one
\* before it or in one around that.
Stands(parents) ==
    \A i \in DOMAIN parents : /\ parents[i] < i
                             /\ parents[i] \in {0, i - 1} \union Around(SubSeq(parents, 1, i - 1))[i - 1]
Bodies(k) ==
    UNION {{[i \in 1 .. m |-> [name |-> names[i], parent |-> parents[i]]] :
              names \in [1 .. m -> Nodes], parents \in {ps \in [1 .. m -> 0 .. m] : Stands(ps)}} : m \in 0 .. k}

\* The calls buildTree finds: functions called, and the tags of the file's own
\* declarations wherever they stand.
Called(graph, n) ==
    {o \in Mates(n) : o \in graph.calls[n] \/ \E i \in DOMAIN graph.body[n] : graph.body[n][i].name = o}

\* addJSXPrintable: of the outermost tags, the first of each name.
Outermost(body) ==
    {i \in DOMAIN body : body[i].parent = 0 /\ \A j \in 1 .. i - 1 : body[j].parent # 0 \/ body[j].name # body[i].name}

\* Slip: what stands inside an imported component's tag is left out.
OutermostOnly(body, i) == {}

\* The tags directly inside the i-th.
Inside(body, i) == {j \in DOMAIN body : body[j].parent = i}

MayEnter(file, seenFiles) == file \notin seenFiles

RECURSIVE Below(_, _, _, _, _)

\* A declaration of the file, expanded unless it is being expanded.
Local(graph, c, depth, seen, seenFiles) ==
    {<<c>> \o rest : rest \in IF c \in seen THEN {<<>>} ELSE Below(graph, c, depth, seen \union {c}, seenFiles)}

\* buildJSXChildrenJSON: a tag of n's body.  That of a declaration of the file stands for
\* the declaration, whatever is inside the tag; an imported one shows what it is made of,
\* as far as files and depth allow, and what is inside it.
RECURSIVE Element(_, _, _, _, _, _)
Element(graph, n, i, depth, seen, seenFiles) ==
    LET u == graph.body[n][i].name
        made == IF depth < MaxDepth /\ MayEnter(File(u), seenFiles)
                THEN Below(graph, u, depth + 1, {u}, seenFiles \union {File(u)}) ELSE {<<>>}
        inside == UNION {Element(graph, n, j, depth, seen, seenFiles) : j \in Inside(graph.body[n], i)}
    IN  IF File(u) = File(n) THEN Local(graph, u, depth, seen, seenFiles)
        ELSE {<<u>> \o rest : rest \in made \union inside}

\* buildDeclarationJSON and externalExpansionJSON: the paths of the tree below a
\* declaration, as sequences of nodes; the text output has the same ones.
Below(graph, n, depth, seen, seenFiles) ==
    {<<>>}
    \union UNION {Local(graph, c, depth, seen, seenFiles) : c \in Called(graph, n)}
    \union UNION {Element(graph, n, i, depth, seen, seenFiles) : i \in Outermost(graph.body[n])}

\* buildTree: what nothing in the file calls; all of it when everything is called.
Roots(graph, file) ==
    LET all == {n \in Nodes : File(n) = file}
        called == UNION {Called(graph, n) : n \in all}
    IN  IF all \subseteq called THEN all ELSE all \ called

printJSONTree(graph, file) ==
    UNION {{<<r>> \o rest : rest \in Below(graph, r, 1, {r}, {file})} : r \in Roots(graph, file)}

-----------------------------------------------------------------------------

MainFile == File(Broad)

TreeInit ==
    /\ answer = <<>>
    /\ \/ \E text \in Texts(Characters, TextN) : \E start \in 1 .. Past(text) :
             given = [kind |-> "text", text |-> text, start |-> start]
       \/ \E tags \in Texts(Tags, TagN) : given = [kind |-> "tags", tags |-> tags]
       \/ \E calls \in SUBSET Mates(Broad), broad \in Bodies(BodyN), others \in [Nodes \ {Broad} -> Bodies(1)] :
             given = [kind |-> "graph",
                      calls |-> [n \in Nodes |-> IF n = Broad THEN calls ELSE {}],
                      body |-> [n \in Nodes |-> IF n = Broad THEN broad ELSE others[n]]]

FindBody == given.kind = "text" /\ answer = <<>> /\ answer' = <<Body(given.text, given.start)>> /\ UNCHANGED given
ScanTags == given.kind = "tags" /\ answer = <<>> /\ answer' = <<scanJSXTree(given.tags)>> /\ UNCHANGED given
ExpandTree == given.kind = "graph" /\ answer = <<>> /\ answer' = <<printJSONTree(given, MainFile)>> /\ UNCHANGED given

TreeNext == FindBody \/ ScanTags \/ ExpandTree

-----------------------------------------------------------------------------
(* Properties.                                                             *)

Computed(kind) == given.kind = kind /\ answer # <<>>
Result == answer[1]

\* The body's braces are those one finds by counting in the masked file that calls are
\* looked for in: the two scanners, written apart, one reading from the start of the file
\* and one from the declaration, agree on what is code, whatever the strings, escapes and
\* comments before and in the declaration.  (Excused are a declaration that the masking
\* scanner takes for the inside of a string or comment, as after an apostrophe in the text
\* of an earlier element, and a comment that is never closed, whose last character the
\* masked text keeps.)
BodyIsCode ==
    Computed("text") =>
       LET text == given.text
           start == given.start
           code == maskNonCode(text)
           count(c, i, j) == Cardinality({k \in i .. j : code[k] = c})
           outside(i) == \A b \in start .. i : count("(", b, i - 1) <= count(")", b, i - 1)
           opening == {k \in start .. Len(text) : code[k] = "{" /\ outside(k)}
           closing(open) == {k \in open .. Len(text) : count("{", open, k) = count("}", open, k)}
       IN  text # <<>> /\ Mode(text, Len(text)) # "block" /\ Mode(text, start) = "code" =>
              /\ Result.open = IF opening = {} THEN 0 ELSE First(opening)
              /\ Result.open # 0 =>
                   Result.close = IF closing(Result.open) = {} THEN 0 ELSE First(closing(Result.open))

\* Where the component tags are well nested, a tag hangs below the component it
\* stands in, directly or below stray tags inside that component only: an opening
\* that is never closed does not swallow what follows its component.
TagsNest ==
    Computed("tags") =>
       LET tags == given.tags
           Real(k) == tags[k].name # "T"
           opens(i, j, n) == Cardinality({k \in i .. j : tags[k] = Tag("open", n)}) - Cardinality({k \in i .. j : tags[k] = Tag("close", n)})
           both(i, j) == opens(i, j, "A") + opens(i, j, "B")
           partner(i) == {j \in i + 1 .. Len(tags) : both(i, j) = 0 /\ \A k \in i .. j - 1 : both(i, k) > 0}
           nested == /\ \A i \in DOMAIN tags : tags[i].kind = "open" /\ Real(i) =>
                           \E j \in partner(i) : tags[j] = Tag("close", tags[i].name)
                     /\ both(1, Len(tags)) = 0 /\ \A k \in DOMAIN tags : both(1, k) >= 0
           around(k) == {i \in 1 .. k - 1 : tags[i].kind = "open" /\ Real(i) /\ \A j \in partner(i) : j > k}
           up[k \in 0 .. Len(tags)] == IF k = 0 \/ Result[k] = 0 THEN {} ELSE {Result[k]} \union up[Result[k]]
       IN  nested => \A k \in DOMAIN tags : tags[k].kind # "close" => {i \in up[k] : Real(i)} = around(k)

\* Cycles of calls are cut at the first repetition, no file is entered twice on a path and
\* at most MaxDepth of them are; yet nothing is hidden by cutting: what hangs below what in
\* the tree is all that calls and visible tags make of the declarations reached in that
\* depth.  Visible is not a tag that stands, at any distance, inside one of a declaration
\* of the file, nor one of or inside a repeated outermost tag of the same name: the code
\* leaves those out.
ExpansionIsComplete ==
    Computed("graph") =>
       LET body(n) == given.body[n]
           up(n) == Around([i \in DOMAIN body(n) |-> body(n)[i].parent])
           repeats(n, i) == body(n)[i].parent = 0 /\ \E j \in 1 .. i - 1 : body(n)[j].parent = 0 /\ body(n)[j].name = body(n)[i].name
           visible(n) == {i \in DOMAIN body(n) : ~repeats(n, i) /\ \A j \in up(n)[i] : File(body(n)[j].name) # File(n) /\ ~repeats(n, j)}
           hangs(n) == {<<n, c>> : c \in Called(given, n)}
                       \union {<<IF body(n)[i].parent = 0 THEN n ELSE body(n)[body(n)[i].parent].name, body(n)[i].name>> : i \in visible(n)}
           enters(s) == {u \in {body(s.node)[i].name : i \in visible(s.node)} : File(u) \notin s.files /\ Cardinality(s.files) < MaxDepth}
           Step(s) == {[s EXCEPT !.node = c] : c \in Called(given, s.node)}
                      \union {[node |-> u, files |-> s.files \union {File(u)}] : u \in enters(s)}
           from == {[node |-> r, files |-> {MainFile}] : r \in Roots(given, MainFile)}
           reach[k \in 0 .. 2 * Cardinality(Nodes)] ==
              IF k = 0 THEN from ELSE LET before == reach[k - 1] IN before \union UNION {Step(s) : s \in before}
       IN  UNION {hangs(s.node) : s \in reach[2 * Cardinality(Nodes)]}
             = UNION {{<<path[i], path[i + 1]>> : i \in 1 .. Len(path) - 1} : path \in Result}

\* Every declaration of the file is shown, but for those called from nowhere but a
\* cycle of calls that no root leads into.
HiddenOnlyByCycle ==
    Computed("graph") =>
       LET hidden == {n \in Nodes : File(n) = MainFile} \ UNION {ToSet(path) : path \in Result}
       IN  \A n \in hidden : \E o \in hidden : n \in Called(given, o)

\* On every small input the printed tree is that of the text: bodies, tags and the
\* expansion agree with what they are by definition.
TreeIsFaithful == BodyIsCode /\ TagsNest /\ ExpansionIsComplete /\ HiddenOnlyByCycle
=============================================================================
