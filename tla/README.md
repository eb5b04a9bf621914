# Verification of py.hocon

TLA+ models of the HOCON library in `src/src/hocon`, the TLC runs that check them on
small instances, and theorems about them that TLAPS checks.  `PROJECT.json` lists the
components, the runs, which definition stands for which lines of code, the hazards that
the properties are aimed at, the disagreements found, and the theorems.

## 1. Inventory

The library is a sequential program: text in, an immutable `Config` out.  There are no
threads, no messages and nothing persisted.  What is hard in it is *order*: the order in
which fields are assigned, files are included, layers are merged, names are mounted and
keys are evaluated must show only where the language says so, although the code memoises,
rewrites trees in place and evaluates keys in the order of the document.

```
text -> lexer -> parser -> AST -> StructureBuilder (phase 1) -> ResObj tree
                                   |  ^                            |
                                   v  | build                      v
                              IncludeLoader              SubstitutionResolver (phase 2)
                                   |                               |
                             files, packages                 HoconValue tree
                                                                   v
names -> mount of paths (.properties, .env, environment) ->  Config: getters, with_fallback,
                                                             resolve, resolve_with, render
```

| component | state it keeps | operations | correct when |
|---|---|---|---|
| Lexer `_internal/lexer` | position, tokens, white space seen since the last token | `tokenize` | a token is the text it was read from; a plus is an exponent sign or an error exactly where Lightbend says so |
| Parser `_internal/parser` | token index, flags of the key being read | `parse_tokens`, recursive descent | no token is lost, moved or read twice; keys, paths and values are the text as it is split; braces match |
| Structure builder `structure_builder.py`, `fold_self_ref.py`, `utils.py`, `types.py` | per object: `fields`, `prior_values`, `reset_keys` | assign, `+=`, dotted keys, object merge, include splice, relativize, merge of unresolved trees | the tree keeps, per key, what later references to the key may look back at, free of self-references |
| Include loader `include_loader.py` | `include_stack`, `base_dir` (copied per file) | `load`, `load_package`, `_load_single` | loading ends; equals inlining; cycles are rejected and nothing else is called a cycle |
| Substitution resolver `substitution_resolver.py` | `cache`, `resolving`, `resolving_concats`, `resolving_field_path`, `resolving_prefix_priors` | evaluate a field, a reference, a concatenation, an array | the result is what the document means, whatever key is evaluated first; cycles and missing values are errors |
| Config `config.py`, `parse.py` | `_root`, `_resolved`, `_res_obj_root`, `_pending` | deferred parse, `with_fallback`, `resolve`, `resolve_with`, getters | what was read stays true; nothing unresolved is read as absent; layers mean the documents one after the other |
| Properties parser, environment adapter | entries read, entries left, the tree so far | read, filter, refuse, sort, mount a name at its path | every entry ends up at its path whatever the order; an object wins over a value; a failure has a cause |
| Rendering `render_hocon.py` | none | `render_root` | what is written is read back as the same tree |
| Coercion, decoding, format adapters, value factory | none | pure conversions | exact units; the values of the other format |
| Depth bounds `_internal/depth.py` | none | `guard_recursion`, 64 segments | no input ends in an undocumented exception |

How they interact: `StructureBuilder.build` and `IncludeLoader.load` call each other, once
per included file, with a copy of the options; the tree that phase 1 builds, with its
priors, is the only thing phase 2 sees; phase 2 evaluates priors that phase 1 saved and
folded, so a mistake in one shows up in the other.  `Config` keeps the phase 1 tree to
merge and resolve it later, and reads answers from three trees that an operation replaces
together.  The parser decides by the white space that the lexer noted on its tokens, and
the renderer relies on the rules of both.

The hard behaviours, each listed in `PROJECT.json` at the line where it bites: chains of
self-references, the splice of an included tree with a history of its own, references that
an include moves below an object, results that are cached by path while the key is half
evaluated, lookups that depend on what was evaluated before, undefined layers over
defaults, cycles of keys and of files, limits (include depth, recursion, path segments),
partial resolution that must not hide what it left open, resolving after layering after
resolving in part, flags that carry white space from one token to the next, names that map
to one path or to a path and its prefix.

## 2. Modules

| module | models | kind |
|---|---|---|
| `HoconTree` | value and resolver trees, the folds of `fold_self_ref.py`, lookups and merges of `utils.py`, `numeric_array.py` | operators |
| `SubstitutionResolver` | phase 2 | operators that thread the class's mutable fields |
| `TreeBuilder` | phase 1: the fields of a document applied to a tree | operators |
| `StructureBuilder` | a document built field by field, then the handover to phase 2 | state machine |
| `HoconSemantics` | what a document means, written without priors, folds, caches or guards | reference definition |
| `ResolverProperties` | the properties of the resolver | properties |
| `MCResolver` | vocabularies of documents | TLC instance |
| `FlatTree` | flat trees: texts, references, layers, priors, and when phase 2 can evaluate one | operators |
| `FlatMeaning` | what the keys of a flat tree mean | reference definition |
| `FlatDocument` | phase 1 on flat documents, and what a flat document means | operators, reference definition |
| `LayeredDocument` | flat documents in pieces: files that include each other, configs that are layered | state machine, properties |
| `MCLayered` | assignments that look back in every way | TLC instance |
| `ReferenceEvaluation` | phase 2 once more, one call at a time, on flat trees | state machine |
| `ReferenceMeaning` | the evaluation of a tree, and of a document's tree, gives what they mean | properties |
| `MCReference` | flat trees and documents, and the recursive models on the same ones | TLC instance |
| `ReferenceEvaluation_proofs` | frames, guard and marks of the evaluation | proofs |
| `ReferenceMeaning_proofs` | the evaluation gives every key its meaning; errors have a cause | proofs |
| `FlatDocument_proofs` | phase 1 builds trees that can be evaluated, and keeps what the document means | proofs |
| `LayeredDocument_proofs` | documents in pieces leave trees that can be evaluated, and mean what the one document means | proofs |
| `IncludeLoader` | loading a text and the files it includes | state machine |
| `IncludeMeaning` | what a text with includes means, by unfolding; the loader's properties | reference definition, properties |
| `MCIncludeLoader` | two directories, their files, and what they may contain | TLC instance |
| `IncludeLoader_proofs` | the loader's frames and include stacks | proofs |
| `RecursionLemmas` | induction over subsets, recursion over the natural numbers | proofs |
| `IncludeLoading_proofs` | what the operators of `IncludeMeaning` give; loading is inlining, and what is circular has no end | proofs |
| `ConfigTree` | a `Config`: its trees, `merge_unresolved`, resolution, `resolve_with`, the getters' lookups | operators |
| `ConfigLifecycle` | a program that parses, layers, resolves and reads configs | state machine, properties |
| `MCConfig` | small documents to layer | TLC instance |
| `PathTree`, `PathStore` | trees as functions of paths; what mounting values promises | operators, abstract specification |
| `PathMount` | reading, sorting and nesting the entries of an environment or file | state machine, properties, refinement of `PathStore` |
| `MCPathMount` | entries | TLC instance |
| `PathMount_proofs` | theorems about `PathMount` | proofs |
| `Characters` | character classes and the grammars of numbers | operators |
| `Lexer` | the tokenizer, one action per branch of its loop | actions |
| `Parser` | the recursive descent, one operator per method | operators |
| `Render` | `render_hocon` | operators |
| `Syntax` | a text, written or rendered, read into a tree | state machine, properties |
| `MCSyntax` | families of texts and trees | TLC instance |

### The resolver

The variables of `StructureBuilder` are the document so far (`doc`), the `ResObj` tree
(`root`) and the outcome of `resolve_tree` for each value of `allow_unresolved` in the
constant `Allowed` (it leaves the tree as it is, so one tree can be resolved both ways).
`BuildField` is one turn of `build`'s loop, everything `_apply_field` does included:
dotted keys, the rewriting of `+=`, the saved and folded prior, the merge into an existing
object, the relativisation and splice of an included tree.  `Resolve` is phase 2 run to
its end: it is deterministic and nothing can interleave with it, so it is one step, and
its inner state (cache, guards, the path being resolved, the depth of the recursion) is
threaded through the operators of `SubstitutionResolver` call by call, in the order of the
code.  Environment variables and lists (`${X[]}`) are the constants `EnvPaths` and
`EnvLists`; every list has one item.

Abstractions: a path stands for its dotted, quoted form (the quoting is injective); the
text of a scalar is a sequence of atoms, so that string concatenation is `\o`; source
positions, error wording and separator white space are left out; nodes are values, where
the code has object identity.  Identity shows at two places: `resolving_concats`, modelled
by the place a concatenation has in the tree, which only one lookup reaches; and
relativisation, which changes placeholders in place and so changes one that a fold has put
at two places twice (a defect, see section 3), where the model changes each place once.
`guard_recursion` turns the interpreter's recursion limit into an error; here the limit is
`MaxRecursion` nested evaluations, 16 in the runs, which no document of a passing run that
means something meets.

`HoconSemantics` is the other side of the comparison.  It defines the meaning of a
document directly: the layers assigned to a key are merged from the first to the last; a
reference in layer *n* of its own key means the layers below *n*, any other reference
means the final value; a circle of references is `Cyclic`, a required reference to nothing
is `Undefined`; an included field stands in place of its directive, and its references
mean paths below the object around the directive if something there is assigned, else
paths as written.  It shares no code with the resolver's model but the join of
concatenated values.

### References, call by call

`SubstitutionResolver` is recursive over trees, which nothing can be proved about here, and
runs phase 2 in one step.  `ReferenceEvaluation` is the part of it that makes it hard, the
depth-first evaluation with its memory, as a state machine without recursion: a field is a
string, a reference to a field, or a concatenation of these, keys have one segment, and
resolution is strict.  The trees are a constant, any trees that `IsTree` allows: a field
comes once in the order, only fields have priors, and no prior refers to its own key (it
was folded when it was saved, `fold_self_ref.py:282`).

A frame of `frames` is an evaluation that waits for the one after it: `field` and
`fallback` are the two evaluations of the loop in `_resolve_res_obj` (lines 62 to 131), the
field and, if it came to nothing, its prior; `found`, `lookback` and `cycle` are the three
ways in which `_resolve_subst` (lines 203 to 285) goes on into the tree: the field the
reference leads to, the prior for a reference inside of its own field, the prior for a key
that is being resolved already.  `cache`, `resolving` and `concats` are the fields of the
class, and `Owner`, the key of the first frame, is `resolving_field_path`.  There is one
action per branch; `Return`, `ReturnFromCycle`, `StoreField` and `StoreFallback` are what
happens when a layer is done.  `guard_recursion` is `Len(frames) >= MaxRecursion`.

`FlatMeaning` says what the keys mean without an order, a cache or a guard, for each
number of levels of references that are followed; a key that depends on itself is
`endless` at every number.  What is wrong with a key otherwise is one of three faults.
`missing`: a required reference leads to no key and no environment variable; the code
raises, and the properties say that it always does.  `empty`: a required reference leads to
a key that is there but came to nothing, as `b` of `a=${?d}, b=${a}` (`Demanded`).  That is
an error by S13.10 as well, but the code takes nothing for the value; so of such keys the
passing runs and the theorems claim neither a value nor an error, the code could raise
without breaking any of them, and `RequiredHasAValue`, which asks for the error, is violated
(run `v_nothing`).  `unclear`: where a field comes to nothing although it has a prior, a
reference sees nothing or the prior depending on which is evaluated first, in the code as
well (section 3).  Of `unclear` keys nothing is claimed either.

`FlatDocument` puts phase 1 in front: a document is a sequence of assignments to keys of
one segment, `Building` is `build`'s loop and `Assign` what `_apply_field` does with such a
field (`structure_builder.py:101-125`): the layer that is there is folded over the prior
that is saved already, or has its own references marked absent, and becomes the prior.  A
concatenation that a fold puts into another is joined to it here, where the code nests it;
joining is associative, and `AgreesWithResolver` compares with the nested one.  What the
document means is stated without priors and folds: the layers of a key lie one upon the
other, and a reference of a layer to its own key means what lies below (`Stack`).  A layer
that comes to nothing leaves the key to the one below (`Left`); what sees it from above or
from another key sees nothing or the layer below, by the order of evaluation, and is
`unclear` (`Seen`; section 3 has the documents where this shows).

`AgreesWithResolver` ties this model to the other one: every tree ends in the same values
or the same exception in both, and a document's tree in those of what `TreeBuilder` builds
from the same fields.

### Documents in pieces

`LayeredDocument` takes the flat documents apart.  A behaviour is a program that parses
texts, which include each other at their top level, and layers the configurations it gets.
`building` is the call stack of `build`: `SetField` is one field of the text at hand
(`_apply_field`), `BeginInclude` and `EndInclude` are the two ends of an include directive,
whose file is built before it is spliced (`deep_merge_res_obj_into`).  `Parse` makes the
text a configuration without resolving it, `WithFallback` is `with_fallback`, with
`merge_unresolved`.  Which files there are, and how often a configuration is used, is left
open: every text that the assignments allow is built in some behaviour, and any two
configurations may be layered, a configuration over itself included.

A piece is a tree with the keys that were set anew (`reset_keys`), as in the code, and three
history variables that the program does not have.  `doc` has the assignments of all that the
piece was made of as one document, in the order that the HOCON specification gives them: an
included file in place of its directive, a receiver after its fallback.  `exact` and `clear` say
that a condition held at every *seam*, the key that both sides of an include or of a layering
have.  The conditions are on the two documents alone:

| seam | `exact`: the tree cannot differ | `clear`: no reference can tell the difference |
|---|---|---|
| an included file has layers of a key over those of the including one | below its last layer there is one that does not look back; or all look back, and there is only one, or references of the first to the key may stay without a value | some layer does not look back; or as for `exact` |
| a receiver has layers of a key over those of a fallback | below its last layer there is one that does not look back; or the receiver has one layer, and the fallback has one or its last does not look back | some layer of the receiver does not look back; or as for `exact` |

Documents for which the code goes wrong lie just outside: an included file of which two layers
look back and must find something, a receiver of which two look back (`v_pieces`), a receiver
that looks back at two layers of the fallback; section 3 has them.  All of this is about keys
that have a meaning (`Seen`).  One whose last value comes to nothing has none, also where the file
in one piece has a value for it (`a=1` with an included `a=${?x}`, section 3).

### The include loader

The call stack of `build` and `load` is the variable `frames`, one record per build that
is under way with the options it was called with; `text` and `disk` are chosen initially
and never change.  Each action is a stretch of the code between two reads of files:
`Load` and `LoadPackage` are the entry of `load` and `load_package` up to the first read,
`ReadMissing`, `ReadFails`, `ReadProperties`, `ReadDocument` and `ReadCircular` are the
ways `_load_single` can go on, `Return` hands the tree of a finished build to its caller,
`Include` merges the result into the including object.  The tree built so far is the
sequence of assignments applied; that splicing a tree equals applying its assignments is
what `IncludeIsInlining` says in run
`resolver`, and, for flat files, `PiecesAreOneDocument` with its condition (section 4).

Left out: the validation of package arguments, custom package resolvers, and the messages
by which a missing file is told from other errors.  With `resolve_from` unset, a package
is looked for next to the file that names it while the cycle check compares the names
only, so a package that contains another of the same name is called circular; the tests
ask for that (decision 8).  The runs give `resolve_from`.  Files of a `.properties`
extension hold assignments only (an assumption of the module, and what
`properties_to_hocon_value` returns), but a package that names one is parsed as HOCON, as
in the code.

### Configs

`ConfigLifecycle` holds the config in hand, perhaps a second one that was just parsed, and
`document`, the one document that the config stands for: the program has no such variable,
it is what the documentation of `with_fallback` promises.  `Parse`, `ParseResolved` and
`ResolveOther` make the second config; `LayOver` and `LayUnder` are the two ways round of
`with_fallback`; `Resolve` is `resolve`, strict or with `allow_unresolved`;
`ResolveAgainst` is `resolve_with`.  An operation that raises leaves the config as it was.
A resolved config stands for the literals it holds, so that layering it again is layering
those.  The getters change nothing: the properties read every path of `PathText` in every
state, through every getter.

### Mounting names

The names of environment variables, the lines of a `.env` file and the pairs of a
`.properties` file become entries, read one by one (`Skip`, `Refuse`, `Take` are the ways
the loop can go on), sorted, and inserted: `Start` takes the least entry that is left,
`Descend` makes or enters one dictionary, `Assign` puts the value.  `PathStore` is the
promise: each value is mounted at once.  `PathMount` implements it under a refinement
mapping that hides the sort and the descent: the abstract map holds the last value of each
path inserted so far, the abstract view is the tree between two entries, and stays what it
was while an entry is on its way.  Left out are the line formats: escapes and
continuations, quoting, what makes a value ambiguous.  An entry says whether it has a flaw,
and whether the flaw is noticed before or after the prefix is looked at.

### Syntax

`Lexer` has one action per branch of the tokenizer's loop, with the text, the position,
the tokens and the white space seen since the last token as state.  `Parser` is the
recursive descent: each operator stands for a method, takes the index of a token and gives
what it read and where to go on.  `Syntax` runs one after the other on a text; the text is
either of a family that `MCSyntax` spells out or what `Render` writes for a tree, so the
round trip goes through all three.  Abstractions: which numbers overflow a double is the
constant `Overflows`, what `\uXXXX` stands for is the constant `Chr`, form feed and the
byte order mark stand for the rest of the white space, positions are offsets in the text.

On some 94 000 texts, those of the families and others, the model's tree or refusal was
compared with what the program does, without a difference.  The same was done for all
2 379 and 3 615 documents of up to three fields of the vocabularies `NestedIncludes` and
`MissingReferences`.

## 3. Runs

The operators whose name has a suffix and which stand just before the operator of the
plain name are faulty variants: with any of them in place, the property that
`PROJECT.json` names with it fails, so each property can fail and the bounds reach it.

| run | explores | shows |
|---|---|---|
| `resolver` | all documents of up to 4 fields of each of seven vocabularies: `a = ..`, `a = ${a}..`, `a = ${?a}..`, `a +=`, `b.x = ${b.x}..`; assignments to `a` that look into the `a` below; files included at the root; files included in an object; four keys that refer to each other in all directions; objects whose members refer to siblings; concatenations of every kind | bookkeeping consistent (`TypeOK`), saved priors free of self-references, the result equals the meaning, `c = ${a}` gives what `a` has where nothing refers to `c`, an include gives what its fields give in place; circles are rejected by the guard and not by the recursion limit; `allow_unresolved` changes nothing that resolves without |
| `evaluation` | flat trees over two keys, each one of fifteen strings, references and concatenations with one of six priors or none, others over three keys of which one is an environment variable, and the trees of all documents of up to three of ten assignments and of up to four of six, with at most 10 nested evaluations | the guard has exactly the keys being resolved, keys get their meaning whatever is in a circle beside them, a tree is rejected only if a key has no meaning, the machine ends as the recursive models do, and every key of a document that has a meaning gets it (`DocumentsGetTheirMeaning`) |
| `missing` | the same with required references that lead nowhere, directly or through others, with environment variables and lists behind some | strict resolution rejects, partial resolution keeps a placeholder, the rest equals the meaning |
| `include_loading` | 5 texts on all disks of the family, depth limit 3, which chains and circles of includes reach | exact include stacks, a depth error only where the files are that deep, the result of inlining or its first failure, no end below what is called circular, and termination (`TypeOK` is proved, section 4) |
| `layered` | all ways to spread up to 4 of six assignments over texts, one level of includes and up to 3 configurations: 360 850 states | every tree can be evaluated (`TreesAreSound`); it is the tree of the one document where the seams are exact (`ExactPiecesAreOneDocument`), and gives its meanings where they are clear (`ClearPiecesKeepMeanings`) |
| `config` | 3 operations on 2 stacks of 6 documents of one or two fields, and a source | `ReadsAreFinal`, `LiteralKeysWin`, `NothingDisappears`: what any getter answers is what the config ends up with; `ResolvesToLayers`: resolving gives what the layers mean as one document, whatever was resolved in part before; `LayersLookBackOnly`, `SourceStaysOutside` |
| `path_mount` | up to 3 entries of 8 paths of up to 4 segments (the limit is 3), with flaws inside and outside the prefix, for all three adapters | a mount is complete, a failure has a cause, inserting step by step refines mounting at once (`TypeOK` is proved, section 4) |
| `syntax` | eleven families of texts, each all rows of up to 4 or 5 pieces (some 88 000 texts), and 344 trees to render | keys, paths and values are their text; a plus is refused where Lightbend refuses it; tokens keep their order and depth; what is rendered is read back |

Why the bounds are enough.  What goes wrong with self-references goes wrong between two or
three layers of one key and one more key that reads it, so four fields reach it.  A prior
is chained when a third document is layered over two, which three operations do with one
left for resolving in part.  The nesting of names goes wrong between two entries whose
paths are equal or extend each other, and with a third in between in the order of the
sort.  A key or path is put together by flags that the last token left, so that pairs of
tokens in all surroundings count, and four pieces have them.  Include chains of the family
use each of two directories, two extensions and a package, and close circles through any
of them.

Two keys that refer to each other, with a prior each, meet every branch of the evaluation:
a key is looked back at while it is resolved for another, a circle goes through two
priors, and 10 nested evaluations are more than the 9 up to which
`ErrorsHaveACause` accepts the recursion limit as a cause.  A document of four assignments
folds a prior into a prior that was folded itself, and spread over an including and an
included text, or a receiver and a fallback, has two layers on either side of the seam, the
least at which the conditions of section 2 differ.  What holds of more keys, longer
documents and longer chains is proved (section 4).

Fairness.  `include_loading` assumes weak fairness of the next step: a load is one call on
one thread that runs on until it returns or raises, and reading a file returns.  No other
run needs fairness.  Deadlock is not checked: the program ends, and a
resolved document is the end of a behaviour.

### Disagreements

Runs `v_*` exhibit disagreements between the code and its own documents; the findings in
`PROJECT.json` quote the lines.

| run | input | the code | the document |
|---|---|---|---|
| `v_nothing` | `a = ${?d}, b = ${a}`, in either order | `{}` | a required substitution without a value is an error (S13.10, `spec-compliance.md:425`) |
| `v_pieces` | `a = ${?a}3, a = ${a}2` over itself, or over `a = 0`, deferred | `a = "32"` | merging is duplicate-key behavior (`spec-compliance.md:805`), which gives "3232" and "032" |
| `v_braces` | `a = 1 } garbage { [` | `{a = 1}` | an unbalanced `}` is invalid (`spec-compliance.md:158`) |
| `v_render` | the key `a\nb` | written in three quotes, which the parser refuses as a key | the output round-trips (`config.py:516`) |

More were met while the vocabularies were chosen, and confirmed with the program.  The
vocabularies of `resolver`, `missing` and `config` stay clear of them, so `ResolvesToMeaning`,
`IncludeIsInlining` and `ResolvesToLayers` hold of the vocabularies and not of every document.
The flat trees and documents of `evaluation` and `layered` are all there are over their parts,
the ones below among them: there the key is `empty` or `unclear`, and nothing is claimed of it.

Documents, resolved in one go:

* `c=${b.x}; b=${a}; a={x=1}` is an error; in the order a, b, c it resolves.
* `a=${?d}; a=${a}1` gives a=1 and `a=${?d}; b=[${a}]` gives b=[], without an error for the
  required reference, as in `v_nothing`.
* `a=${a}1; a=${?a}2` gives a=2: the first layer is an error by itself, but is never saved as a
  prior, and nothing asks for it again.
* `a=1; a=${?b}; a=${?c}` gives `{}`: two undefined layers lose the default.
* `a=${b}; a={x=1}; a={y=2}; b={z=3}` gives an `a` without `z`.
* `a=1; a=${a}${b}; c=${b}; b=${a}` gives c=1 although b=11 (a cached lookback).
* `a=[{x=1}]; b=${?a.x}` gives b=1 (a path into an array).
* `a=${b}; b=2; b=${?c}` gives no `a` (an undefined override reached by a reference).
* `b.x += 6; b.x = 5` raises an error for the hidden value, and so does
  `o {a=${?o.a}${?e}}; o {b={y=5}, a=${o.b}}` when `e` is a string.
* `b=${a}; a={y=${a.x}}; a.x += 2` gives b.x=[2,2] (an append evaluated twice).
* `b=${a}; a={x=1}; a=${a.x}` is an error only when `b` comes first.
* `a.x={z=3}; a.x=1; b=${a.x.z}` gives b=3.
* `a=${b}; c=${a}; b=2; b=[${c}]` gives a=[2] and b=[[2]]: in a circle that the prior of `b` breaks,
  `a=${b}` is not what `b` is.
* `a=${b}; a=${b}x; b=${a}; b=${a}y`, two priors that refer to each other's key, is an error
  only because the recursion limit is met: the guard takes the prior of a key that is being
  resolved and does not guard it again (`substitution_resolver.py:229`).
* `c=${a}; a=${a}1` is "circular", while `a=${a}1; c=${a}` "could not resolve".

Includes:

* `a=1` and an included `a=${?x}` give `{}`; in place they give `a=1`.
* `a=0` and an included file with `a=${a}1; a=${a}2` give "02"; in place they give "012".
* `a={x=1}`, an included `a=${b}`, and `b={y=2}` give an `a` without `x`; in place it has it.
* `b=1; a=${b}; a=${a}${a}; a=${a}d` included in an object `o` is an error for `${o.o.b}`:
  the fold puts one placeholder object at two places, relativising prefixes it twice.

Configs:

* `a.x += 1` over `a.x += 2`, both deferred, ends in a `RecursionError`: the value of the fallback
  is folded under its leaf key (`types.py:155`), so that the prior of `x` keeps its `${?a.x}`.
  Without `a.` the same layers give [2,1].
* `a=${b}` resolved with the source `a.x=1, b.y=2` gives `a={x=1,y=2}`, although "source's keys
  are NOT merged into the result" (`config.py:415-416`).
* `a=${a}3` over `a=1; a=${a}2`, deferred, gives "13", and one document "123"; `a=${?x}` in place
  of the first gives 1 and "12".
* `a=${b}; a={x=1}` with `allow_unresolved` gives `{a={x=1}}`, reported as resolved.
* `a=${b}; a={x=1}; b={y=2}`, deferred, resolves to `a={x=1}`: `contains_placeholders` does
  not look at priors.
* Three layers of `a=${?a}t` give "tt".
* `${X[]}` without environment variables raises under `allow_unresolved`, where `${X}`
  stays a placeholder (`README.md:257`, `substitution_resolver.py:316`).

Syntax:

* `a. b = 1` gives the key `a`, ` b`, but `${a. b}` reads `a`, `b`.
* `a"q" = 1`, `"q"a = 1` and `"""a""" = 1` are refused as keys (S10.8, `spec-compliance.md:308`).
* `${a//b}` is the path `a//b`; no comment starts there.
* `include "x" b=1` needs no separator, `include file("x"` no closing parenthesis, and
  `include package("a","f") x=1` drops `x=1`.

What the vocabularies of run `config` leave out on account of these: more than one
self-referential document per key of a stack, an object literal over a reference of
another layer, an undefined override that others refer to, and a nested self-reference in
a fallback.

## 4. Proofs

`IncludeLoader_proofs` proves, for every choice of the constants that satisfies
`NamingAssumption`, `ContentAssumption` and `MaxDepthAssumption` (every directory layout,
every content of files, every depth limit):

* `TypeCorrect`: `Spec => []TypeOK`.
* `NoFileWaitsForItself`: `Spec => []ChainsKnown`: build *i* has exactly the *i - 1* files
  that wait for it on its include stack, all different, at most `MaxDepth`, each stack a
  prefix of the next.

`ChainsKnown` is not inductive: `ReadDocument` pushes a key without comparing the depth
with the limit again, because `load` compared it before probing.  `IInv` adds
`LoadEntered`: a frame that probes has room on its stack for one more key.

`IncludeLoading_proofs` compares loading with inlining, from the same assumptions:

* `LoadingIsInlining`: `Spec => []LoadsAsInlined`: a load ends in exactly the tree that
  inlining every directive gives, or in the first exception of inlining, or rejects what
  inlining does not end within `MaxDepth` levels.
* `CircularIsEndless`: `Spec => []CircularMeansEndless` for finite `Keys`, and
  `CyclesHaveNoEnd`: what is called circular has no end at *any* number of levels, where the
  property that TLC checks unfolds one level more than there are keys.
* `DepthErrorsNeedFiles`: `Spec => []TooDeepNeedsFiles` for finite `Keys`: the depth limit
  is only met where `MaxDepth` different files exist; where there are fewer, every circle is
  reported as a circle.

The first three assume `PackagesFixed`: either packages are looked for in fixed
directories, or there are none.  Without it they are false, and for a reason in the code:
`load_package` puts the name of a package on the include stack and not the file that it
found, so the same name, found from one directory and absent from another, is rejected as
circular where inlining says that there is no such package.

The argument.  `IInv` (frames and stacks are exact) is strengthened by `MInv`: every build
stands at one of its statements, and its tree is the meaning of the statements before it;
a load is at a candidate of the directive its caller stands at, and its tree is the meaning
of the candidates before; an exception has the meaning of the statement it left.  `Means`
then follows an exception outward: what one statement means, the statements around it
mean, since a failure ends everything before it is completed (`Outwards`).  `Ends` does
the same for circles: a load refused as circular names a key that its own stack has, and
inlining descends from that key to itself (`Cycle`).  If it ended anywhere, take the least
level where it does; the same directive one level down has to end as well, against the
choice (`CycleHasNoEnd`, which uses `LeastNumber` and `Descends`).

The meanings are recursive functions, over the levels and over the statements of a
document.  The induction theorems of the library take an operator as a parameter, which
the provers cannot instantiate, so `RecursionLemmas` states induction for a *set* of
numbers (`SetInduction`, from the least number outside of it) and builds the function that a
recursive definition chooses from its finite beginnings (`PrimitiveRecursion`, from
`FollowingExists`); every other induction here cites these.

`PathMount_proofs` proves, for every limit on segments, every set of paths and values that
satisfies `PathsAssumption` and `DictAssumption` and every input of any length
(`MaxSegmentsAssumption`, `InputsAssumption`):

* `TypeCorrect`: `Spec => []TypeOK`.
* `MountComplete`: `Spec => []MountIsComplete`: what is mounted is the view of exactly the
  entries asked for, the last one of each path.
* `FailureHasACause`: `Spec => []FailsForACause`.
* `Refinement`: `Spec => Store!Spec`, property `InsertsAreMounts`: the initial states map
  to those of `PathStore`, `Assign` maps to mounting the value, every other step to a
  stutter.

The inductive invariant is `IInv == TypeOK /\ ReadOK /\ OrderOK /\ TreeOK`.  `ReadOK`: so
far, the entries taken are those asked for, and none of them is a cause to fail.
`OrderOK`: of one path, the entries inserted were read before those left, so that the last
one inserted is the last one read; it is all that is used of the order in which the sort
puts entries, so that it holds for the sort by text of `.properties` keys as well.
`TreeOK`: between two entries the tree is the view of what is mounted, and while an entry
descends it is that view with its first `depth` prefixes made dictionaries
(`DescendOne`); the last step then gives the view with the value mounted (`AssignMounts`),
which is where it matters that an object wins over a value both ways.

`ReferenceEvaluation_proofs` and `ReferenceMeaning_proofs` prove, for every set of trees that
satisfies `TreesAssumption` (every tree that phase 1 builds does: `BuildsTrees` below), every
environment and every recursion limit (`EnvironmentAssumption`, `MaxRecursionAssumption`):

* `InvHolds`: `Spec => []IInv`, and from it `GuardExact`: `Spec => []GuardIsExact`: the guard
  against cycles and the marks of concatenations, sets that are filled and emptied on the
  way in and out, with a copy taken and put back in between, have exactly the keys that
  they should, none of them twice.
* `MeaningsHold`: `Spec => []MInv`: what is evaluated, cached and stored fits its meaning in
  every state.
* `EveryMeaningReached`: a key that has a meaning with any number of levels gets it, and a
  required reference to what neither the tree nor the environment has is never passed over,
  for trees of any size, infinite sets of keys included (of a required reference to a key
  without a value, the fault `empty`, nothing is claimed; see `v_nothing`); `KeysMeant`: `Spec => []KeysGetTheirMeaning` for finite `Keys`.
* `ErrorsCaused`: `Spec => []ErrorsHaveACause` for finite `Keys`: a tree whose keys all have a
  meaning is not rejected as circular or for a missing value, and meets the recursion limit only if
  that is at most `2 * Cardinality(Keys) + 1`.

`GuardIsExact` is not inductive.  `IInv == TypeOK /\ Structure /\ InTurn` says what the
frames are: each evaluates the field or the prior of its key and, but for the last, stands
at the reference that called the next; only the first is of the loop; `Once`: no key is
guarded or marked twice; and `OwnLookback`: only the field in turn is looked back at.  The
last is the reason for the first: a reference to a key whose concatenation is being joined
is either to a guarded key, and so a cycle, or to the field in turn (`WhoLooksBack`).  And
removing a key from a set is right only because it is in it for one frame.

`MInv` adds what the values are.  A value *fits* a meaning if it is that meaning's value,
or if the meaning has none and is not `missing`; it has to fit at every number of levels at
once.  What fits a meaning also fits it where it is demanded (`DemandedFits`): if that makes
it `empty`, any value does.  Any value fits an endless meaning, so that a value computed in the middle of a circle,
which may be the prior where another order gives the field, is allowed there; and whatever
reads it depends on the circle and is endless too.  That is how circles cannot spoil what
is outside of them.  `Circle` shows that a key on the stack that is reached again is
endless: the frames from it to the top are references, so what ends at some number of
levels ends at a smaller one, and there is a least (`LeastNumber`).  The cache has one
exception: while the field in turn looks at itself, the entry of its key may be its prior
(`LookingBack`), which is why a field forgets its entry before it is evaluated
(`EnterField`), and why nothing else may read it meanwhile without being in a circle
(`FollowsOthers`, `CalledBySelf`, `Fresh`).  For the errors, `FramesCount`: without a
circle, there are at most one frame of a field and one of a called prior for each key, and
the fallback.

`FlatDocument_proofs` goes from the document to the result, for every document of any
length over any keys, strings and environment (`DocumentsAssumption`):

* `BuildsTrees`: what phase 1 builds satisfies `IsTree`, the assumption that the theorems
  above make of trees, and has exactly the keys of the document.
* `BuildingKeepsMeanings`: where the layers of a key have a meaning, the field and the prior
  that were built from them mean the same, at every number of levels.
* `DocumentsMeant`: `Spec => []DocumentsGetTheirMeaning` for finite `Keys`: both phases
  together give every key that has a meaning the one of its layers, and reject only documents
  of which some key has none (one that is `empty` has none, so the error that S13.10 asks for
  is allowed).

The argument.  `BuildsTrees` is an induction over the assignments: folding over a prior
that does not refer to the key leaves none that does (`Complete` adds that every field is
in the order).  For the meanings, the invariant over the assignments is `Agree`: the top
layer of a key is its field, what lies below, if it has a meaning, means what the saved
prior means in the *final* tree, and if no prior is saved, nothing with a meaning lies
below.  Its step is
`FoldedMeaning`: a layer with its own references replaced by the old prior, which are then
parts in the middle of a concatenation, means what the layer means over the old prior.
This needs that the meaning of a concatenation is that of its halves joined
(`TogetherConcat`).  `AgreeAll` holds at one number of levels if the tree and the document agree on
the keys one level below, so a second induction, over the levels, gives `LevelsAgree`, for
keys that have a meaning; where they have none the two may be wrong for different
reasons.  `DocumentsMeant` then follows from `KeysMeant` and `ErrorsCaused`, with
`EndsLast`: a run that has resolved its tree has every field in turn behind it.

`LayeredDocument_proofs` extends this to documents in pieces, for every set of assignments and
every bound (`AssignmentsAssumption`, `BoundsAssumption`):

* `PiecesSound`: `ConfigSpec => []TreesAreSound`: however texts are included and configurations
  layered, every tree satisfies `IsTree`, with the keys and last values of its document.
* `PiecesAreOneDocument`: `ConfigSpec => []ExactPiecesAreOneDocument`: where the seams are exact,
  the tree is the one that `build` makes of the one document.
* `PiecesKeepMeanings`: `ConfigSpec => []ClearPiecesKeepMeanings` for finite `Keys`: where
  the seams are clear, every key with a meaning in the one document has it in the tree.
* `PiecesResolved`: `Spec /\ ConfigSpec => []PiecesGetTheirMeaning` for finite `Keys`: phase 2
  on the tree of such a piece gives every key that has a meaning its own, and rejects the tree only if one of
  its keys has none or the limit is below what `ErrorsCaused` allows.  (No run checks this
  one; it joins the two machines.)

The invariant is `LayeredInv`.  Every piece is `Sound`: its tree `HasFieldsOf` its text, that
is, it has the fields and the order of its document; if the seams were exact, it *is* the tree
of the document; if they were clear, it `Represents` it.  A tree represents a document if its
priors are those of the document's tree wherever a field looks back, and it has no prior where
that tree has none: a prior that nothing looks back at may differ or be gone, which is what
`with_fallback` and a reset in an included file do to it.  `ClearPiecesKeepMeanings` itself is
not inductive: it says nothing of the priors that the next seam brings back into sight.  For
texts under way `SetAnew` is added: `reset_keys` are exactly the keys of which some layer does
not look back, which the splice decides by.  (A merge of unresolved trees does not read
`reset_keys`, and its result has none.)

What a document's tree is after more assignments is an induction over them
(`DocumentInduction`).  Over a document `d` that goes on with `e`, the prior of a key is that of
`e` alone if some layer of `e` below the last does not look back, and otherwise that of `e`
with the layers saved from `d` below it (`AddsAll`, `SeamPriors`).  `SpliceKey` and `MergeKey` then
compare this, key by key, with what `deep_merge_res_obj_into` and `merge_unresolved`
leave.  The splice is where marks of absence count: an included first layer `${?a}1` was saved
with its reference marked absent, since nothing was there in its own file, and
`fold_known_absent_self_ref` puts the layers of the including file in that place.  This commutes
with the folds in between (`AbsentOfMarked`, `AbsentOfFolded`).  Where the first layer's
reference is required it was not saved at all, so there is no place left to fill: hence the
condition `Foldable`.

Only model-checked: that the flat evaluation agrees with the full one
(`AgreesWithResolver`), the resolver's trees, the configs and the syntax, whose operators are
`RECURSIVE` over trees and texts (tlapm has no SMT backend in a module that declares such an
operator), and that loading ends (`Terminates`: liveness needs `ENABLED`, which
the provers cannot expand).

## 5. Not modelled

Markers and decoding are driven by Python type hints and keep no state.  The JSON5, JSONC,
YAML and TOML adapters are scanners of other languages or calls into other libraries, and
end in plain trees.  Coercion is exact decimal arithmetic on long texts, whose boundary
cases the tests list.  Of the properties parser and the environment adapter, the formats of
lines are left out; of `Config`, the conversions of typed getters and the iteration
protocol; of the include loader, the validation of package arguments and custom
resolvers.  Tests, tools and benchmarks are not part of the library.

## 6. Plan

Done: the resolver with relativisation and environment lists, the loader, configs, mounts,
lexer, parser and renderer; proofs about loading, mounting, the evaluation of references,
both phases on flat documents, and flat documents in pieces.  What could follow, in this
order:

1. Documents with objects, without recursion: keys of two segments, where the splice and
   `merge_unresolved` go down once.  To prove: `PiecesKeepMeanings` with the full path in place
   of the leaf key (the first of the disagreements on configs shows where the code fails it).
2. A tree with shared nodes for phase 1, so that the placeholder which relativising prefixes
   twice can be seen by `IncludeIsInlining`.
3. The line format of `.properties` (continuations and escapes) and the quoting of `.env`
   lines, as families of texts in the manner of `MCSyntax`.
4. The options of a decode as a table: which target accepts which kind of value.
