# Verification of qore-llvm in TLA+

This directory holds TLA+ models of the compiler and run-time system of
qore-llvm, the TLC configurations that check them on small instances, and
theorems about them that TLAPS proves. `PROJECT.json` lists the components, the
runs, which lines of the source each definition stands for, the hazards the
properties are for, and the theorems.

Paths below are relative to the repository (`src/` in `PROJECT.json`).

## 1. The system

A script goes through these parts:

| Part | State it keeps | Operations | Correct means |
|---|---|---|---|
| Sources, scanner, directives (`lib/comp/Scanner.cpp`, `DirectiveProcessor.cpp`, `Source.h`, `SourceManager.h`) | stack of open sources, position, line and column in each | next token, `%include`, a line of the standard input is appended | every character in one token or gap, tokens in the order of the expanded program, locations right, each read returns |
| Parser (`lib/comp/Parser-*.cpp`) | the current token, tokens recorded to be parsed again | one function per construct, recovery after an error | every loop ends, recovery stops at the end of the construct, a recorded token is neither lost nor read twice |
| Diagnostics (`DiagManager.h`) | a counter of disablers, processors | report, disable, enable | the counter returns to what it was |
| Declarations (`lib/comp/sem/NamespaceScope.cpp`, `Core.h`, `FunctionGroupInfo.cpp`, `GlobalVariableInfo.cpp`, `Analyzer.cpp`) | symbol tables, four queues of pending work, initializers | declare, resolve, process the queues | every declaration is processed once, after what it needs |
| Pass 1 (`ExpressionAnalyzerPass1.h`, `StatementAnalyzerPass1.h`) | block scopes of a function, its parameters | one visitor per node: types, conversions, names | a name means the variable of the innermost scope, the tree is well typed |
| Pass 2 (`ExpressionAnalyzerPass2.h`, `StatementAnalyzerPass2.h`, `FunctionScope.cpp`) | the C++ call stack | one visitor per node, which calls the builder | the code releases what it takes and locks what it touches, also when something throws |
| Code builder (`Builder.h`, `Builder.cpp`, `LValue.h`) | blocks, current block, free temporaries, owned temporaries, locals in scope, locked lvalue | create instructions, temporaries, scopes; landing pads | temporaries are not shared, landing pads are exact |
| Interpreter (`in/FunctionInterpreter.h`) | frame: temporaries, locals, result; position | one visitor per instruction | does what the instruction says, exceptions included |
| Native code (`lib/cg`, `lib/nrt`) | block map, queue of blocks, last value of each temporary; the environment built at the start | one visitor per instruction; `qstart` | does what the intermediate code does, in the environment that was analyzed |
| Run-time core (`core/RefCounted.h`, `GlobalVariable.h`, `impl/*`) | reference counts, values and locks of global variables | inc/dec, get/set/init, lock, conversions, operators | no use after delete, no leak, no data race on a global |
| `qorec` (`tools/qorec`) | interactive session: one builder, one frame, one scope | read, translate, run | the session's code stays well formed, its variables keep their references |

They interact by calls only, in one thread while compiling. What is shared at
run time are the global variables: they outlive every call and other threads
may assign to them.

**What is hard here.** The compiler's state in pass 2 is spread over the
destructors of nested C++ objects (`TempHelper`, `LValue`,
`LocalsStackMarker`); "order of temporaries and destruction is critical", a
comment says. What is right at one nesting of operands may be wrong at another,
and a mistake shows only when one particular instruction of the generated code
throws. Hence the centre of this project: the builder, its users and the
execution of the code they produce, with every exception and with other
activations that assign to the global variables between any two instructions.

## 2. The modules

| Module | Models | State |
|---|---|---|
| `Source`, `Scanner` | a text with a place in it; one attempt to read a token | - (operators on a source) |
| `Directives` | the stream of tokens: include stack, conditional sections left to the parser, standard input | `sources`, `stack`, the mode of the read under way; `items` and `origin` are histories of what was scanned and of where sources were included |
| `Parser` | `lib/comp/Parser-*.cpp`, the token queue and its recorder (`Parser.h`, `Token.h`), the nesting of disabled diagnostics (`DiagManager.h`) | `todo`: the steps still to be taken (the C++ stack); queue, lookahead and recorder are the fields of the classes; `scanned` is a history of what was read until the first error |
| `Grammar` | the language that the comments of the parser and `grammar.y` describe, as sets of sentences | - |
| `Declarations` | namespaces, symbol tables, queues of `Core`, `Analyzer::analyze()` and the order of the interactive mode | symbol tables as functions from paths, the queues, the phase of the driver, diagnostics |
| `Lifecycle` | abstract: the life of a declaration, whatever queues there are | the stage of each declaration |
| `Startup` | `qstart`, which `CodeGen` makes of the environment, executed by `nrt` | - (a sequence of calls, evaluated) |
| `Types` | types, table of conversions and operators, `find()` | - |
| `Pass1` | the visitors of pass 1 with `BlockScope`, `FunctionScope` and the choice of a function | - (a scope is handed from visitor to visitor) |
| `Syntax` | the trees that pass 1 makes | - |
| `Code` | instructions and blocks (`core/code/*`) | - |
| `Builder` | `sem::Builder`, `TempHelper`, `LocalsStackMarker`, `LValue`; one action per method | `blocks` ... `unlockLValue` are the fields of the class, `helpers` the live `TempHelper` objects, `loop` a loop of the builder that is under way, `status` how the process ended |
| `RaiiClient` | abstract: every use of the builder that the scoping rules of C++ and the conventions of the visitors allow | `frames`: the nested evaluations |
| `Pass2` | `FunctionScope::analyze()` and all visitors of pass 2 | `todo`: the calls still to be made (the C++ stack) |
| `Machine` | execution of the intermediate code | frame, heap, global variables, locks, position |
| `System` | `Pass2`, then `Machine` on its result | both |
| `Session` | the interactive loop: `System` with one builder, one frame and one scope for many statements | the entry block, the top scope, initializers not taken |
| `FunctionCompiler` | the native code of a function, made block by block, and its execution | `native`, `blockMap`, `queue`, `temps` are the fields of the class, `visitors` its recursion, `machine` the execution |
| `Native` | `Pass2`, then `FunctionCompiler` on its result | both |
| `Programs`, `MC...` | functions to translate and constants for TLC | - |
| `SequenceLemmas` | lemmas about sequences | - |
| `RaiiClientProofs`, `RaiiCodeProofs` | proofs about `RaiiClient` | - |
| `DeclarationProofs`, `LifecycleProofs` | proofs about `Declarations` | - |
| `ParserProofs` | proofs about `Parser` | - |
| `FunctionCompilerProofs`, `NativeProofs` | proofs about `FunctionCompiler` for all code, and about `Native` | - |

Four compositions follow a script through the compiler. `Directives` uses
`Scanner` and `Source`. `Declarations` follows a name from its declaration to
the executed initializer, and treats the body of a function as the list of
symbols it uses; it implements `Lifecycle`, and `Startup` takes the environment
from it. `System`, `Session` and `Native` take functions as syntax trees through
`Pass1` and `Pass2`, and execute the result. `Parser` stands alone: it builds
no tree, it accepts or rejects tokens.

`Builder` is written once and used by two next-state relations: `RaiiClient`,
which is as general as the classes' contract, and `Pass2`, which is the
analyzer. `Pass2` is shown to implement `RaiiClient` (property `IsClient`, with
`frames` as the sorted addresses of the objects that wrap a temporary of their
caller), so what is proved of `RaiiClient` for every client holds for the
analyzer as it is.

How the code appears in the models:

- A method of `Builder` is one action. The two methods with a loop that creates
  code in each iteration (`buildLocalsDerefForRet`, `~LocalsStackMarker`) take
  one step per iteration.
- An `assert` sets `status` to `"assert"`, `QORE_NOT_IMPLEMENTED` (it throws
  `NotImplemented`, which nothing catches) and `QORE_UNREACHABLE` set it to
  `"notImplemented"`, and nothing happens after that.
- Temporaries and blocks are numbered from 1, the null pointer is 0.
- In `Pass2` a visitor is the sequence of calls it makes, the destructors of
  its local objects included, in C++ order. The `TempHelper` objects of nested
  calls have increasing addresses; the address of `dest` identifies the call.
- In `Machine` a value is the address of an object, null, or a plain value (any
  integer or boolean). Objects keep their type and their count; a dead object
  stays in the heap with count 0, so a use of it is seen. Branches take both
  ways.
- Whatever `canThrow` says may throw does: nothing at this commit throws
  `qore::Exception`, but the builder emits landing pads by that flag, and the
  `throws` clauses of the documentation announce it. A called function may also
  return, as a new reference, a new object or one of its arguments. The release of
  a reference does not throw in the interpreter (a FIXME says it will); that
  its landing pad is nevertheless right is part of `LandingPadsExact`.
- The lock methods of `GlobalVariable` only log at this commit, so nothing waits
  and nothing can deadlock. The machine follows what the class documents of
  them: a lock that is held keeps other activations from assigning.
  `LocksProtect` thus checks the documented contract, for the day the methods
  are more than a stub.
- In `Source` a character is a string of length 1, the NUL that ends a text the
  empty string; a form feed stands for a NUL within the text and `@` for the
  backquote, which strings of TLA+ cannot hold. Offsets begin at 0.
- In `Directives` a step is one attempt of the scanner to read a token with
  what the directive processor does with it. A read of the parser begins in any
  mode of the setup; it ends with a token, or goes on after a directive or the
  end of an included file.
- In `Pass1` a node of the syntax tree is a record, a visitor an operator that
  is given a node and a scope and returns the tree and the scope after it. Local
  variables come from a fixed set (`NameOf`: their names), so several variables
  can have one name; `ok` is false where the code ends the process.
- In `FunctionCompiler` a native instruction stands for all that one `visit()`
  creates; the value a temporary is bound to is the place of the native
  instruction that computes it. `Run` executes intermediate and native code side
  by side. What LLVM does with the code is external.
- In `Session` a name can have as many variables as `NameOf` gives it, since the
  frame keeps a slot for each one ever declared.

- In `Declarations` an entity (`NamespaceInfo`, `ClassInfo`, `GlobalVariableInfo`,
  `FunctionGroupInfo`) is its path from the root namespace, a node of the syntax
  tree its position in `nodes`, which is its location too. A map of
  `NamespaceScope` is a function whose domain are the paths it knows. `since`
  is where the syntax trees begin that still exist: `qorec` deletes the tree of
  a declaration before it reads the next. To process a deleted one or to read a
  location of it (`ClashWithDeletedTree`) ends the process as `"undefined"`.
  `todo` holds the declarations a recursive walk has still to visit, `taken` is
  the queue a loop of `processPendingDeclarations()` has moved out of `Core`.
- Bodies in `Declarations` are well typed, return where they must, and call
  without arguments; statements at the top level declare no variables. What
  pass 1 does not implement (other symbols, overloads, types without a default)
  ends the process as there.

- In `Parser` a function is the sequence of the steps it takes, up to the place
  where it looks at the next token; there a `Call` stands for the rest, which is
  chosen when the token is known. Its loops are a `Call` that ends with itself.
  Tokens that the parser treats alike are one type (`+` and `-`, `=` inside
  `assignment` and `+=` for the compound ones); a source is any sequence of
  tokens over a set of types. The scanner's own errors are left out, except
  that what follows `=~` may be no regular expression. `failed` is what the
  diagnostics know: an error, or the warning that a module is ignored.

A few definitions have a slipped version next to them (`FarthestCleanup`,
`visitLocalVariableRefBorrowed`, ...): no model uses them. They are what the
mutants of `PROJECT.json` put in place of the definition, to see that the
property fails.

## 3. The runs

| Run | Configuration | Checks |
|---|---|---|
| `scanner` | `MCDirectives.cfg` | `Directives` on about 22000 texts, files that include each other and lines of the standard input |
| `parser_language` | `MCLanguage.cfg` | `Parser` against `Grammar`, on all sources up to 5 to 8 tokens |
| `parser_recovery` | `MCRecovery.cfg` | `Parser` with every error and three more tokens |
| `script` | `MCScript.cfg` | `Declarations` on whole scripts of up to four declarations (classes, namespaces, types, globals and functions that refer to each other and use the same identifiers), executed at the end; `Startup` on the result |
| `interactive` | `MCInteractive.cfg` | the same declarations with statements in between |
| `builder` | `MCRaiiClient.cfg` | `RaiiClient`, in one behaviour with three `TempHelper` objects in one block, or in another with several blocks and nested scopes around one object |
| `native` | `MCNative.cfg` | `Native` on about 80 functions |
| `execution` | `MCSystem.cfg` | `System` on about 150 functions and `Session` with up to three statements, with two assignments by others |
| `parser_ends` | `MCEnds.cfg` | a comment of `parseScript()` that two loops of the parser contradict |
| `interpreter_cleanup` | `MCInterpreter.cfg` | a comment of the interpreter that the code contradicts |
| `try_catch` | `MCTryCatch.cfg` | a comment of `TryStatement` that the code contradicts |
| `session_return` | `MCSession.cfg` | a comment of `Builder` that a return in a session contradicts |

What they show:

- `ProgramIsRead`: each character of each source is in exactly one token or one
  gap of white space and comments, and the tokens come in the order of the
  program in which every `%include` is replaced by the file. A directive is what
  begins a line, and nothing else is. A file that ends within a comment, a
  string or a directive is among the texts.
- `LocationsAreRight`: the line and the column of every token and diagnostic are
  those of its text (tabs, CR, LF and CR LF, columns above 255).
- `ReportsAreRight`: exactly the tokens that are not whole are reported.
- `TokensAreStable`: lines that are appended to the standard input change no
  token that was read before.
- `ReadReturns`: every read returns, unless a file includes itself.
- `MutedOnlyWhileSkipping`: whichever way the recovery of the parser is left,
  diagnostics are disabled while it skips tokens and at no other time, so nothing
  that the parser reports is lost.
- `RecoveryStopsInPlace` (action property): recovery stops at the first token
  where it may, that is at the end of the source, at the brace that closes the
  block it began in or, if it looks for a semicolon, at one of this block,
  however deep the blocks are that it skips. `recoverSkipToCurlyRight()` leaves
  that brace to its caller. `recoverSkipToSemicolon()` takes what it stops at,
  the brace of the enclosing block too (`qtif/parser/recovery-semicolon.qtif`
  expects so). `skipped`, a history variable, has the tokens it has taken; the
  property counts their braces anew, the loop has only its counter.
- `TempsExclusive`, `DerefExact`, `AssertionsHold`: no temporary is in the
  hands of two objects that could both fill it, `derefTemps` is exactly the set
  of temporaries that own a reference, no assertion of these classes fails.
- `LandingPadsExact` (action property): when an instruction that may throw is
  appended, its landing pad releases exactly the temporaries that own a
  reference at that point, unlocks the locked lvalue if there is one and goes
  on in the innermost cleanup block; no landing pad at all means there is
  nothing to do. It covers the code of `return` and of the end of a scope.
- `CleanupChain`: from each local in scope the cleanup blocks lead through all
  older ones.
- `FinishedBlocksStay`: a terminated block is never changed.
- `CodeIsCompilable`: each temporary an instruction reads was written in the same
  block (or before the instruction that leads to the landing pad), each block
  ends with its only terminator, and a landing pad is no destination and cannot
  throw. The native code generator binds temporaries to LLVM values in the order
  in which it compiles blocks, so this is what makes it agree with the
  interpreter.
- `IsClient`: the refinement described above.
- `CompiledOnce`: the native code is well formed (each block ends, each value is
  computed before it is used, on every path), every block that can be reached is
  compiled once, and landing pads once for each instruction that leads to them.
- `SameExecution`: the native code executes the same instructions in the same
  order with the same operands as the intermediate code, on every path.
- `NoFault`: in no execution is an object used after it was deleted, a variable
  read before it has a value, a lock misused, an assertion of the run time
  violated or the end of a block passed. With variables that hide each other
  this is also what makes the scopes of `Pass1` right.
- `ReferencesBalance`: when the function has returned or has been left by an
  exception, and after each statement of a session, each object has exactly the
  references that the rest of the program has: nothing leaks, nothing is
  released twice.
- `LocksProtect`: globals are read and written under the right lock; under a
  lock no other lock is taken, no function called, no reference dropped; no
  lock is left behind.
- `Ends`: execution of translated code ends.
- `NamesAreUnambiguous`: no path is that of a namespace and of a class, or of a
  global and of functions, and the parent of each is a namespace.
- `NothingIsLost`: each declaration is part of a symbol or is reported, once.
- `TypesAreFinal`: a type in a script means what it means when all
  declarations are known; `PreviousIsFirst`: the location in
  `SemaPreviousDeclaration` is that of the first accepted declaration.
- `QueuedOnce`: a global without a run-time object, a group with pending
  overloads and a function without code are each exactly once in the queue of
  their kind (or in what a loop has taken of it), and nothing else is.
- `NoFault` (of `Declarations`, in scripts): no assertion on a missing or second
  run-time object, no call of a function without code, no use of a deleted tree.
- `OnlyClashesFault` (in sessions): the same but for one case, which the formula
  states, a declaration of the name of a global variable of an earlier turn.
- `InitializedOnce`: each global with a run-time object has one initializer,
  which waits or has been executed.
- `KeepsOrder` and `IsLifecycle` (refinement of `Lifecycle`, its safety part and
  all of it): no declaration is resolved while others are collected, none is
  translated while any is unresolved, none is used before; and in the end each
  is ready, unless the process ends.
- `StartsAsAnalyzed`: the calls of `qstart` build the namespaces, variables and
  function groups that the analyzer has left, none twice, and each variable that
  a function reads has the slot in which `qstart` puts that variable.
- `AcceptsOnlySentences`, `RejectsNoSentence`: the parser, which decides on one
  token and on what it has recorded, accepts exactly the sentences of the
  grammar, and reports the first error no earlier than at a token that no
  sentence goes on with.
- `TokensInOrder`: what is recorded, looked at or unread is what follows the last
  token consumed for good, in the order of the source; nothing is lost or parsed
  twice when `namespaceMember()` goes back.
- `AssertionsHold` (of `Parser`): no token is consumed or reported that is not
  there, there is one recorder at a time, stopped or rewound before it is
  destroyed.
- `RegexIsScanned`: what follows `=~` is read from the source, in the mode for
  regular expressions, never from tokens scanned before.
- `Ends` (of `Parser`): the end of the source is reached, after any error.

The four runs that end in a violation:

- `CleanupIsExecuted`. `FunctionInterpreter::run()` sends an exception to the
  landing pad, but the interpreter has no visitor for `RefDecNoexcept` and
  `ResumeUnwind`, so the first instruction of the landing pad ends the process
  although the comment in `run()` describes how cleanup code is executed. In
  the other runs these instructions are executed, as native code does.
- `TryCatches`. The statement analyzer translates the body of `try` without
  telling the builder of the catch block (`LocalsStackMarker` has a parameter
  for it), so an exception leaves the function.
- `Ends` of `Parser`. The loop over the members of a group (`private { ... }` in
  a class) ends only at `}`: at any token that begins no member, and at the end
  of the source, it reports errors for ever. The loop over the statements of a
  `case` does the same at the end of the source. In `parser_recovery` these
  two do not occur (no source there has a modifier in a class, or a `case`), and
  the parser reaches the end of every source.

- `LocalsNeedRelease`. `createRetVoid()` of a return at the top level of a session
  releases the variables of the session, as at the end of a function; but the
  session goes on, and the builder still has them on its stack. In `execution`
  no statement of a session returns.

One more thing the interactive driver does wrong: when a global or a function is
declared with the name of an earlier global variable,
`GlobalVariableInfo::getLocation()` (`GlobalVariableInfo.h:66-68`, called at
`NamespaceScope.cpp:133` and `:152` for `SemaPreviousDeclaration`) reads the
syntax tree of that variable, which the loop in `Interactive.cpp:180` has deleted
before it read the next declaration. The model ends there as `"undefined"`.
`OnlyClashesFault`, checked and proved, says that this is the only use of a
deleted tree, and that no assertion fails. In a script the trees live as long as
the analyzer and `NoFault` holds. The call of `interactive()` is commented out
in `tools/qorec/qorec.cpp` at this commit.

**Bounds.** `MaxBlocks`, `MaxCode` and `MaxScopes` limit the state in which an
operation of `RaiiClient` may begin, and `MCRaiiClient` splits them: three
objects in one block with two instructions and one scope, or one object in
three blocks with one instruction and two scopes (a state with the largest of
each has no new pair of neighbours, and there are too many of them). Three objects suffice for what the
temporaries do: an owner, an evaluation that wraps its temporary, and one that
takes a freed one. For the scopes, two nested scopes with two locals and a
block that is left early contain every adjacent pair of cleanup blocks. The proofs
below have no such bounds. `Programs` enumerates every binary operation,
assignment, compound assignment, declaration and call with operands of each
kind (literal, local, global, parameter, call; counted and plain), nestings
that need a temporary, a lock and a landing pad at once, and statements with
each way of ending a block. `MaxChanges = 2` lets another activation replace a
global variable between a read and its use, and again after the function's own
assignment. The largest code has fewer than 99 blocks and entries, the bounds
given to the client in `IsClient`; `Addresses` and `Temps` are as many as the
deepest nesting takes.

A session has three statements (`MaxInputs = 3`): a variable is declared, used
and hidden, or a global variable is declared in between, and the end of the
session releases what is left. In `Programs` a function has at most two
variables of one name, which is a variable and the one that hides it.

The texts of `scanner` are all those of three to five pieces from small
alphabets, one for each part of the scanner (operators; quotes and escapes;
comments; line ends, tabs and directives; numbers and identifiers; regular
expressions; every separator), so each branch of the scanner is taken, and each
pair and most triples of its parts follow each other. `MaxSources = 9` lets
three includes of a file that includes another be read, `MaxEnds = 2` lets the
end be read again, and a file that includes itself run into the bound.

`MaxNodes = 4` in
`Declarations` lets no declaration begin after four nodes: two entities that
clash, one that refers to them from another namespace and one that comes after;
a namespace with members may end beyond it. The pools of declarations contain each kind
with simple, qualified, root and invalid names, a namespace within a namespace
of the same name, mutually recursive functions, a function with an overload, a
global that hides or is hidden by a function, and uses before and after the
declaration. Two statements let an initializer run before and after one.

`Sources` of `Parser` gives for each part of the language its tokens and a length
that lets the constructs nest or follow each other: five tokens for operators
(three levels at once), six for expressions with brackets and for declarations
(a namespace with a member, a function, two declarations in a row), seven for
statements, eight for casts and `try`. `Longest = 8` is the length of the table
of sentences. `MaxTail = 3` tokens after that of the first error let the parser
skip a brace, a semicolon and resume; a comparison with the grammar needs none.

**The reference language.** `Grammar` is written from the comments that precede
the functions of the parser and from `grammar.y`, not from the functions. Where
these give a sentence two readings it takes the one the comments of the parser
choose: a statement that begins with `{` is a block, `type name (` at top level
begins a function, and the name after a type does not begin with `::`. `map` takes
all expressions that follow, so `(map x, y)` is no list of two. Not compared:
`foreach` (`grammar.y` has an expression where the parser wants a type and an
identifier), `switch`, classes, modules, and strings.

**Deadlock** is not checked because every model stops: the client at its
bounds, the process at an assertion, the translation and the execution at
their end.

**Fairness.** `SystemSpec` assumes weak fairness of the machine's step: the
interpreter is a loop in a running thread, and native code is executed by one.
Nothing is assumed of the translation or of other activations. `FairSpec` of
`Declarations` assumes that the analyzer, one thread that waits for nothing,
goes on, and that a script ends: it is a file. `FairSpec` of `Parser` assumes
the same of the parser, which is called by that thread. `Spec` of `Directives`
assumes that a read that has begun goes on (`<>[]Reading => []<><<Step>>_vars`,
which is weak fairness of `Step`, enabled while a read is under way); whether the
parser ever reads again is left open. `Liveness` of `Lifecycle` states no
fairness of its own: it is what the queues are to show.

## 4. The proofs

Everything is proved for all sets of variables, objects, instructions,
declarations and sources and all bounds.

| Module | Theorem | Statement |
|---|---|---|
| `RaiiClientProofs` | `TemporariesAreExclusive` | `Spec => []TempsExclusive` |
| | `LandingPadsReleaseWhatIsOwned` | `Spec => []DerefExact` |
| | `NoAssertionFails` | `Spec => []AssertionsHold` |
| `RaiiCodeProofs` | `TypesAreCorrect` | `Spec => []TypeOK` |
| | `FinishedBlocksNeverChange` | `Spec => FinishedBlocksStay` |
| | `LocalsAreReleasedInOrder` | `Spec => []CleanupChain` |
| | `LandingPadsAreExact` | `Spec => LandingPadsExact` |
| `DeclarationProofs` | `NamesAreAlwaysUnambiguous` | `Spec => []NamesAreUnambiguous` |
| | `GlobalsAreInitializedOnce` | `Spec => []InitializedOnce` |
| | `TypesAreRight` | `Spec => []TypeOK` |
| | `WorkIsQueuedOnce` | `Spec => []QueuedOnce` |
| | `OnlyClashesWithDeletedTreesFault` | `Spec => []OnlyClashesFault` |
| | `OrderOfQueuesIsRight` | `~Interactive`, then `Spec => []NoFault` |
| `LifecycleProofs` | `NoDeclarationIsLost` | `Spec => []NothingIsLost` |
| | `TypesOfScriptsAreFinal` | `~Interactive`, then `Spec => []TypesAreFinal` |
| | `PreviousDeclarationsAreFirst` | `Spec => []PreviousIsFirst` |
| | `QueuesImplementLifecycle` | `Spec => KeepsOrder` |
| `ParserProofs` | `OnlySkippingIsMuted` | `Spec => []MutedOnlyWhileSkipping` |
| | `RecoveryEndsInPlace` | `Spec => RecoveryStopsInPlace` |
| | `NoTokenIsLost` | `Spec => []TokensInOrder` |
| | `ParserAssertionsHold` | `Spec => []AssertionsHold` |
| | `RegexIsNeverReadAhead` | `Spec => []RegexIsScanned` |
| `FunctionCompilerProofs` | `CodeIsTranslated` | `CompilerSpec => []CompilerInv` |
| | `NativeExecutesSame` | `CompilerSpec => []SameExecution` |
| | `NativeIsWellFormed` | `CompilerSpec => []WellFormed` |
| | `NativeIsComplete` | `CompilerSpec => []CompiledOnce` |
| `NativeProofs` | `NativeExecutesSame` | `NativeSpec /\ []CodeIsCompilable => []SameExecution` |
| | `NativeIsComplete` | `NativeSpec /\ []CodeIsCompilable => []CompiledOnce` |

`SequenceLemmas` holds what these proofs need of the operators on sequences
(`RemoveFirst`, `Front`, `Append`, `FlattenSeq`, injectivity).

**The builder.** The theorems of `RaiiClientProofs` follow from one inductive
invariant, `TempInv`. `TempsExclusive` alone is not inductive: an object may be
destroyed (and its temporary freed) while a younger one still wraps it, unless
one knows that evaluations are nested. So `TempInv` adds that the live objects
have the addresses 1, 2, ... without a gap, that `frames` is increasing and
names exactly the objects that wrap a temporary, and that a wrapped temporary
belongs to the object directly below. The proof that a step keeps `TempInv` has
a lemma for each action that touches temporaries; the others leave its variables
alone.

`CodeInv` of `RaiiCodeProofs` also says what `TypeOK` does not: while a `return`
is being generated the current block is not finished, and every block or landing
pad an entry of `localsStack` names exists. `ChainInv` adds
what makes `CleanupChain` inductive: the cleanup block of each entry is finished,
so no later step can change it, and it goes on in that of the next older
variable, not in whatever is older when it is executed. `LandingPadsExact` is
then proved action by action; `PadInv` adds that the instruction with which
`return` or the end of a block will finish (`loop.ins`) needs no landing pad
itself. The loop that releases the locals is the case where the two
meet: the landing pads it makes are those of the scope that is left so far.

Together they say what is hard to test: whatever instruction throws, at
whatever nesting of evaluations and scopes, exactly what is owned is released,
each once, in order. `IsClient` carries this over to the analyzer.

**Declarations.** The invariants build on each other. `NamesInv`: what is still
to be visited stands in a namespace that exists, so a parent that
`findParentFor()` accepts is one; the proof turns on the members of a
namespace, which are visited after it has been added and before anything else.
`InitInv`: nothing but globals with a run-time object is in `initializers`; it
holds because `pass2()` of a global adds an initializer only with a new run-time
object. `ShapeInv` is the type invariant with what refers to what. `QueueInv`
says for each queue what waits in it, in terms of the symbols: `GlobalsQueued`,
`GroupsQueued`, `FunctionsQueued` are `QueuedOnce`; `Emptied` (a queue that has been
worked off stays empty until something is declared), `NothingDeleted` (what waits
stands in the tree that is still there) and `CallsOK` (what is called has a
function) are what `OnlyClashesFault` needs and what `QueuedOnce` needs of the
others. In a script nothing is deleted (`since = 1`), so the case that
`OnlyClashesFault` leaves open cannot occur and `NoFault` follows.

`LostInv` is `NothingIsLost` without its condition on the status.
`FinalInv` adds to `TypesAreFinal` that nothing is resolved while a script is
read (`CollectingInv`), so that one is a theorem of scripts only, as the run
checks it. `FirstInv` adds to `PreviousIsFirst` that what a symbol knows as its
location is the first accepted declaration of its name. `PreviousIsFirst` holds with
both drivers: in a session a diagnostic that would need the location of a
deleted tree is never made, the model has ended.

`QueuesImplementLifecycle` is the refinement, `Lifecycle` with the stages of the
declarations computed from symbols, queues and initializers. `StageInv` (a node
belongs to the symbol of its path and is queued once) makes the mapping a
function; `StageFacts` is then what every case of the proof cites: the stage of
each global and each overload. Each action of `Declarations` is shown to be one
step of `Lifecycle` or to leave its variables alone.

**The parser.** The stack `todo` is a sequence of steps, and an action only
replaces the first one, so the invariant is about what may stand on it. `Enter` is the
set of stacks in which every step stands where it may: a token is consumed or
reported only right after a step that has looked at one, `disable`, the loop and
`enable` stand together, a recorder is begun only before a function that stops
or rewinds it. `Closed` are those that need no token at their beginning. Lemmas
about the functions of the parser say that what a call is replaced by may stand
there, whatever the token is. `StackInv` then names the nine situations the
parser can be in between two steps (`Executing`, `Skipping`, `Reading` while
tokens are recorded, ...). `TokenInv` says where each token that is recorded,
looked at or unread comes from; that what is recorded may only precede a name
(`Prefix`) is why `=~` and what follows it is never read ahead.

`RecoveryStopsInPlace` needs one more invariant, `SkipInv`: the counter in the step
of the loop is the depth of what has been skipped, and recovery could not have
stopped at any prefix of it. `SkipOutcome` says what the loop does with a token;
`DepthLemma`, how a token changes the depth. While diagnostics are not disabled
nothing is skipped (`QuietMeansNoSkip`), so the other steps only matter where
they disable and enable.

**The native code generator.** `CompilerSpec` is `FunctionCompiler` for any
code at all, which may change until the compiler is constructed and must then be
`Compilable`: an instruction reads what its own block has written before it (a
landing pad: what every instruction that leads there has written before),
blocks end with their only terminator, landing pads are no destinations, throw
nothing and write no temporary. `SameExecution` compares two executions, so the
inductive invariant has to say what the native code is: `CompilerInv` knows, for
each native block, from which place on the intermediate code is translated in it
(`starts`, whose existence is what the invariant claims). So the place of each
native instruction is known; `TranslationOK` says that it has the kind, the
destinations and the landing pad of the instruction there, and `OperandsOK` that
each operand is the value made from the last instruction before that place which
writes the temporary (`LastWrite`). The heart of it is `TempsOK`: at any time the
temporaries are bound to what the block that is being compiled has written, no
matter how many other blocks have bound them before. It survives the landing pad
that is compiled between two instructions of a block because a landing pad
writes no temporary and the value of the invoke is bound afterwards, on return
(`InnerOK`). While the code is executed, `HasWritten` is the same fact for the
machine: the last write of each temporary in the block has been executed, on this
path.

For `CompiledOnce` the invariant gives "at most once" (`StartsOK`: no place but
those of landing pads is in two blocks) and "nothing is left over" (`QueueOK`: a
block that is not finished is that of a Visitor or waits in the queue). That only
what can be reached is compiled is a second invariant, `ReachedInv`: whatever set
of blocks contains the entry and is closed under successors contains all that is
known. `Reached` is the least such set (`ReachedLemma`), because a chain of
growing sets of `Len(blocks)` blocks stops growing after as many steps. The
landing pads are counted by a bijection between the native blocks of a pad and
the instructions that lead there (`PadsCounted`).

`NativeProofs` shows that a function on its way through `Native` takes only steps
of `CompilerSpec` (`StepsAsCompiler`, action by action), provided the analyzer has
made `Compilable` code. That is `CodeIsCompilable`, which run `native` checks for
its programs: it speaks about the visitors of pass 2 on all syntax trees, by
induction on them.

**Assumptions.** `VariableAssumption` (names of globals and locals are distinct,
the counted locals are locals) and `ClientAssumption` (the instructions a client
emits are instructions, without a landing pad of their own; those that may throw
are emitted as such, except `RefDec`, which only the builder emits) for the
builder; `DriverAssumption` (members of declarations are declarations, names are
sequences of strings, routines have a sequence of statements, statements declare
no variables) for `Declarations`; `ParserAssumption` (lengths and bounds are
natural numbers) for `Parser`. TLC evaluates them in the runs. `CodeIsCompilable`
is a hypothesis of the theorems of `NativeProofs`, not an assumption: it is an
invariant of run `native`.

Two statements were wrong and the proofs showed it. `NothingIsLost` took a
rejected `namespace ::a` for a part of a namespace `a`; a declaration with a
root name is now part of none. `ClientAssumption` let a client emit `RefDec`
itself, which `LandingPadsExact` takes for the end of an owner, the builder's
affair.

**Only model-checked.**

- `StartsAsAnalyzed`: `Startup` evaluates a sequence of calls by recursion over
  the data.
- `Pass2`, `Machine`, `System`, `Session` (`CodeIsCompilable`, `IsClient`,
  `NoFault`, `ReferencesBalance`, `LocksProtect`): they say something about the
  code of all programs, by induction on their syntax, and `Pass1` is recursive
  for the same reason.
- `Directives`: its sources are texts, and the prover has no facts about the
  characters of a string.
- `AcceptsOnlySentences`, `RejectsNoSentence`: `Grammar` is recursive.
- `Ends`, `ReadReturns` and `IsLifecycle`: liveness under fairness.

## 5. Not modelled

See the components in `PROJECT.json`. Left out inside modelled parts:

- the trees the parser builds (they would be the parser's stack again), texts
  of diagnostics and their printing, logging, dumpers, iterators;
- in the scanner, characters that are treated alike are one, and a source with
  more than 2^23 lines (where the packed location would overflow). The mode
  `NormalOrSimpleRegex` is never asked for by the code;
- a declaration that refers to itself (`string s = s`): it reads a variable that
  has no value, which a comment in `visit(VarDeclExpression)` knows; nodes that
  pass 1 does not implement;
- the texts of literals and the values of integers, the boxing of values that
  differ only in their type, and the functions that are called (a call is one
  step with every outcome). So `convertAny()` and `toInt()` are modelled by the
  references they take, not by their results;
- LLVM, and what `CodeGen` has no case for: global variables of other types than
  string end the process, as there; a function of type `nothing` returns void;
  sources and string literals of `qstart`;
- the destruction of `Env`: it happens once, after everything else, in the
  order of the members of one class;
- `interactive()` itself is not called at this commit: its call is commented out
  in `tools/qorec/qorec.cpp`. What it does is modelled.

## 6. Plan

1. Done: `Code`, `Builder`, `RaiiClient`, its invariants and first proofs;
   `Types`, `Syntax`, `Pass1`, `Pass2`, the refinement; `Machine`, `System`,
   `Session`.
2. Done: `Declarations`, both drivers, `Lifecycle` and the refinement, `Startup`,
   proofs of all safety properties of `Declarations`, the refinement included.
3. Done: `Parser` and its reference `Grammar`, the disabling of diagnostics, and
   the proofs about it; `Source`, `Scanner`, `Directives`. Left: classes and
   `switch` in `Grammar`.
4. Done: `FunctionCompiler`, `Native`.
5. Done: the proofs about `FunctionCompiler` and `Native`.
6. Proofs left: that a machine without a fault keeps the locks it should
   (`LocksProtect`), from an assumption on the code instead of the programs.
