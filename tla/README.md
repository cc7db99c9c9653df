# Verification of the MF / EMF query generator

`final` reads the seven operands of a Phi query (S, W, n, V, F, sigma, G),
asks MySQL for the columns of the table, and writes a C++ program, `result.h`
and `result.cpp`. `make output` compiles it; `./result` loads the table, runs
one scan per grouping variable and prints the answer; `generate` fills the table
with random rows. This directory holds TLA+ models of these programs, of the
session around them and of the result set of the database connector they read
through, TLC runs over small instances, and TLAPS proofs for all instances.

Paths below are relative to the repository (`src/`).

## 1. The system

| component | state | operations | modelled in |
|---|---|---|---|
| generated program (text from `lib/objects/scan_generator.cpp`, `condition(s).cpp`, `lib/helpers.cpp`, `query.cpp`, `structures.cpp`, `average.tcc`) | `data`, `uniques`, `mf_struct`, `data0..dataN` | load rows, `get_uniques`, `prelim_scan`, the aggregate scans (MF or EMF), `fill_mfstruct` with HAVING, `print_mf_structure` | `PhiQuery`, `MFScan`, `MFQuery` |
| list splitting (`lib/str.cpp`) | the rest of the string, the index, the parts | the loops of `explode` and `c_explode` | `Explode` |
| `final` (`main.cpp`, `lib/user.cpp`, `lib/output.cpp`, `lib/io.cpp`) | the stream, the lines read, the operands, the two files | argument forms, terminal input, file input, column lookup, generation, unlink/open/write of each file | `Final` |
| session (`makefile`, `README`) | the binary, what was printed | `./final`, `make output`, `./result`, failures, kills | `Workflow` |
| parsing of names and clauses (`condition(s).cpp`, `aggregate.cpp`, `parse_having`, `str.cpp`) | the vectors of `parse_query` | `Aggregate`, `Condition`, `Conditions`, `toCpp`, `parse_having` | `Str`, `Clauses` |
| schema, types and declarations (`column.cpp`, `structures.cpp`, parts of `helpers.cpp`, `output.cpp`) | the columns, the structs of `result.h` | SQL type to C++ type, the struct builders, `get_ct`, matching of names | `Declarations` |
| `SQLConn` (`sql.cpp`), `generate` (`generate.cpp`) | a connection; the table on the server | connect, fetch, execute; INSERT in a loop | `Database` |
| result sets (`mysqlconnector/jdbc/driver/mysql_resultset.cpp`) | the stored rows, `row_position`, the C API's cursor, the row, `was_null` | `next`, `previous`, `first`, `last`, `absolute`, `relative`, getters, `close` | `ResultSet`, `Cursor` |
| the rest of `mysqlconnector/` | | vendored library | no |

How the parts interact: `main()` calls one of the two input routes; both cut
the operands with `explode` and call `parse_query`, which fetches the columns,
builds the text of both files in memory, and then writes `result.h` and
`result.cpp` one after the other. The generated program shares with `final`
only `SQLConn` and `Average<T>`. Both read through `SQLConn::fetch`, which stores
the whole result on the client, and a loop over `next()`. `generate` is a third
program on the same table, in as many processes as somebody starts. `final`, `make` and `./result` communicate
through the files of one directory, and nothing in a file says which request it
belongs to.

What is hard to test here: the erase-while-iterating loop of `fill_mfstruct`;
that `data0..dataN` stay parallel to `uniques`, on which every `at(pos)` relies;
conditions whose two sides come from two loops; zero-initialised aggregates;
divisions in HAVING; the wrapped `size_t` of `explode`; a stream that fails half
way through the operands; a crash between the two files and leftovers of an
earlier request; texts that are told apart by an underscore or by an even index;
two positions in a result set that must agree; rows inserted and columns altered
while a query reads. Nothing runs concurrently inside a program, but the programs
share a directory and a table. The hazards are listed, each at its line, in `PROJECT.json`.

What makes the parts correct:
- generated program: it prints exactly the answer of the query, each group once,
  and stops early only for causes outside it;
- `explode`: a well-formed list is cut into its parts, no text is lost, and no
  read is out of range except where noted;
- declarations: what g++ accepts has the shape the scans rely on, each field has the
  type of its column, and ordinary queries compile;
- parsing: a program that compiles tests, groups and prints what the operands
  say, and ordinary queries are read;
- result sets: every call with its argument moves to the row it names and getters
  return that row's cells, also when the connection is gone, except after a move
  back past the first row;
- table and readers: a query sees one moment of the table and every row of it
  once; the rows inserted are those asked for, up to a failure;
- `final` and the session: what a request prints is the answer of that request,
  or the request fails visibly; every request ends, except on a file that cannot be
  read.

## 2. Modules

**`PhiQuery`** has the operands as CONSTANTS and the value-level operators:
loading a row, same-group, integer division as C++ does it, aggregate updates,
the connectives of a such-that clause with C++ precedence, HAVING with
short-circuit evaluation. Its `ASSUME`s are what the generator and the C++
compiler demand before a generated program runs at all: V among the plain
columns of S, F within variables 0..n, the aggregates of S in F, no column on the
right of an MF condition; and, for the aggregates of F, what the scans have a
statement for: one of the five functions in lower case, over a numeric column
unless it is count. g++ demands the latter only in part (`Declarations!Unchecked`).
HAVING is a disjunction of conjunctions of atoms `lhs op mul * num / den`, or the
single assignment of `test/example5`.

**`MFScan`** is the generated `main()`, one action per loop iteration, with `pc`
for the loop it is in. `uniques` holds positions in `data` (pointers in the
code). `vfind` counts from 0 and returns -1, as generated. `Average<T>` is a sum
in `cells` and a count in `counts`. Faults are explicit ends: `sql_error`,
`sigsegv` (a NULL or empty text assigned to a zeroed `std::string`),
`out_of_range` (`at(-1)`), `sigfpe` (integer division by zero).

**`MFQuery`** is the abstract specification: one step that prints the answer,
defined declaratively from the meaning the operands have in the test queries and
header comments, or one of the failures a program cannot avoid.
`MFScan!RefinesQuery` says that `MFScan` implements it. That holds for the queries
whose text means in C++ what it says (`MFScan!Intended`): no `=` in HAVING, no MAX
of negative or MIN of positive values, no aggregate of variable 0 in an EMF query,
and such-that conditions that compare, in an MF query, with a constant or with a
quoted value by `=` and, in an EMF query, a column with the same column by `=` or
`!=`. (A column on the right of an MF condition does not compile, grouping attribute
or not: `FormAssumption`.) What is excluded is either a disagreement of section 3
(the exchange of the two rows that `emf_order` shows touches every EMF condition but
the symmetric ones) or a query to which the repository gives no meaning (variable 0
of an EMF query).

**`Str`** has the string functions the parsing calls, as operators: `Exploded` is
what `explode` and `c_explode` return, quirks included. **`Explode`** extends it
with both splitting loops, `size_t` modulo `SizeMod`; `Split` is the reference,
PHP's explode, and `ComputesExploded` says that the loops return `Exploded`, on
which `Clauses` relies.

**`Clauses`** is the parsing part of `parse_query`: the loops over F, S and sigma,
the clause of each variable and HAVING, in the order of the calls, with every
exception. A text is a sequence of lexical tokens (words, numbers, single
characters the code looks for). The result is the expression the generated
program evaluates; `Compile` is what g++ refuses of it, which is external: it knows
names, numbers, the four operations, quoted texts, and in HAVING comparisons,
connectives and the assignment `=` (an aggregate that is not an average, at the
front). g++ also accepts values with parentheses or other names in scope; such texts
count as refused, so the properties say nothing of them. A column whose name holds
`avg` gets `.value()`, as the code has it, and g++ refuses that. The
reference is a grammar of names, conditions and lines taken from the test queries
(`Named`, `Readings`, `Words`), read top-down where the code cuts with
`find`. What the code reads differently and g++ accepts all the same is listed
under "Where the code departs from the grammar" and excepted by name: a chain of
comparisons, a text compared with another operator than `=`, a prefix that names
another variable (`Departs`), the names `Misnamed` describes, and a line break
inside a line (`OneLine`), where the code cuts at spaces only.

**`ResultSet`** is `MySQL_ResultSet` for stored results, one action per method.
`row_position` and the C API's `data_cursor` are two variables, because the code
keeps them apart. **`Cursor`** is the abstract specification, with one position:
what each call, with its argument, does to it and answers. Both have the last call
and its argument as variables, so `ResultSet!RefinesCursor` says that every call of
the first does what that call of the second does; a `first` that landed on another
row, or a `next` that stayed, would not. A set that `absolute` or `relative` moved
back past its first row may be `adrift`: until a call names a row or an end, `next`
and the getters then promise little, and all other calls what they always do.

**`Database`** extends `ResultSet` with the table, any number of `generate`
processes, the two reading loops (`getColumns` in `final`, `data_retrieval` in the
generated program, one action per statement) and an ALTER TABLE by somebody else.
A statement may fail before or after the server has executed it.

**`Final`** is the program `final`; texts are opaque values, and what the control
depends on is kept (empty or not, longer than the buffer or not, n, the highest
variable in F). The loop that reads a file asks for eof only: when a read fails
(FILE is a directory, a disk error) it never leaves `reading`. The history variable `unnoticed` records what went wrong in the
run without failing it: unknown arguments, a cut line, a failed file operation.
**`Workflow`** extends it with the build, the run, and the next request in the
same directory.

**`Declarations`** is the part of `parse_query` that builds `result.h`: the loops
over columns, S, F and V that declare `mf_structure`, `sales`, `group0..N` and
the parameters of `vfindN`, one action per iteration. Names are opaque, and the
constant `Within` says which contain which, since most lookups are
`name.find(column)`. Which of the generated statements g++ accepts (assigning,
adding or comparing fields of given types, fields that are not declared) is
external to the repository and stated as the operators at the end of the module.
A FLOAT column is fetched with `getFloat`, which the connector does not have, and
without V the test of `vfindN` is `if()`: g++ refuses both.
`CompiledMeetsAssumptions` ties the module to `PhiQuery`: a program that compiles
satisfies `ColumnsAssumption` and `AggregatesAssumption`, under which the scans are
modelled and proved, unless F has an aggregate g++ does not look at (`Unchecked`: a
function in capitals or an unknown one, the column of a count, a text under an
aggregate that S does not print). For those `PhiQuery` assumes more than g++ asks.

`MCMFScan`, `MCMFIntended`, `MCExplode`, `MCClauses`, `MCDeclarations`, `MCWorkflow`,
`MCResultSet` and `MCDatabase` give TLC its queries, tables, texts and sessions.
`MFScanProofs`, `ClausesProofs`, `ExplodeProofs`, `WorkflowProofs`,
`ResultSetProofs`, `DatabaseProofs` and `DeclarationsProofs` hold the proofs, `Induction`
the lemmas about recursive functions, counting and short lists that they share.
Definitions ending in `_Mutant` are plausible bugs, each next to the definition it
would replace; they show that the properties notice them and are not part of any
specification.

The line each definition models is in `PROJECT.json`, under `map`.

## 3. Runs

| run | instance | shows |
|---|---|---|
| `mf_scan` | all tables up to 3 rows (`MaxRows`), with a NULL text row; two variables, a three-condition clause with `and`/`or`, a HAVING with `or` and a division | types; no `at(-1)`; first rows of groups; exact aggregates after each scan; `fill_mfstruct` skips and repeats nothing; the program implements the abstract query; it ends |
| `emf_scan` | the clauses of `test/example6` | exact aggregates, refinement and termination for the pair loops |
| `explode` | all strings of up to 7 characters (`MaxLength`) over a letter, a comma and a blank; three delimiters | well-formed lists, nothing lost, the one out-of-range case, what the loops return, termination |
| `clauses` | all such-that texts of up to 4 tokens (`MaxTokens`) over ten; longer conditions on every column, put together from five prefixes, the operators and 22 values, each in both forms; lines of up to 5 pieces (`MaxPieces`); right and wrong names in S and F; HAVING texts of up to 4 pieces (`MaxWords`), and of three operands, with `=` | what compiles tests the clauses, prints the names and evaluates the HAVING as written; queries in the style of the test files are read |
| `declarations` | tables of two and three columns over five data types in several orders, queries that fit them and queries that do not | what compiles meets the assumptions of the scans, but for what g++ does not look at; the ways of looking up a type agree when no name contains another; queries like the test files' compile |
| `workflow` | 2 requests (`MaxRequests`), eight queries, all argument forms and file layouts, I/O errors, kills anywhere | the printed answer is of this request; files belong together; every request ends, or reads a file that cannot be read |
| `result_set` | results of 0 to 3 rows, NULLs, a value above 32 bits (`Half` = 4 stands for 2^31), a missing column, offsets -4..4, the connection deleted at any time | types, where the two positions part, the refinement of `Cursor` call by call |
| `database` | two generators of 2 rows or a negative number, one query, three schemas, one ALTER (`MaxAlters`), failures before and after the server acts | columns of one schema; each row once; one moment of the table; inserted rows accounted for; everyone ends |

Runs that end in a violation, each a disagreement between the code and what the
repository says of it (`findings` has the quotations):

| run | what TLC shows |
|---|---|
| `having_equals` | `=` in HAVING assigns, so groups that do not satisfy it are printed |
| `emf_order` | `1.month<month` selects the later months in an EMF query |
| `string_operator` | a quoted value is compared for equality, whatever the operator |
| `unchecked_write` | success with an old, missing or cut file |

More disagreements show in the models and have no run of their own:
- the minimum of positive values is 0, because cells start from calloc
  (`UpdateCell`, `lib/objects/scan_generator.cpp:130`): with a MIN in F,
  `ScannedAggregatesExact` fails;
- a clause that reads another variable's aggregate selects nothing for the first
  group, whose `vfind` position is 0 (`CondHolds`, `lib/objects/condition.cpp:58`);
  with such a clause `ScannedAggregatesExact` fails;
- with columns `unit` and `unitprice`, `get_ct` gives one the type of the other and
  the program still compiles (`FirstType`, `lib/helpers.cpp:12`); `LookupsAgree`
  asks for names of which none is part of another;
- a typed such-that line of 500 characters or more is cut and HAVING dropped
  (`ReadLine`, `lib/user.cpp:45`, against `README:7`); `AnswersTheRequest` excepts
  what `unnoticed` records;
- `main()` returns success for arguments it does not know (`InvalidInput`, against
  `README:8`);
- `DATE`, `DATETIME` and `TIME` columns are declared `Date` where
  `lib/objects/column.h:53` says `string` (`getOutCppType`);
- adjacent and trailing delimiters are not split as PHP's explode does, to which
  `lib/str.h:19` refers (`CleanListsSplit` excludes these);
- `final FILE` appends empty lines for ever when FILE is a directory (`GetLine`,
  `lib/io.cpp:34`); `EveryRequestEnds` names it as the only place a request can
  stay in;
- a condition on a column with `avg` in its name does not compile (`toCpp`,
  `lib/objects/condition.cpp:40`); `SaneQueriesRead` asks for other names;
- for a FLOAT column the program calls `getFloat` (`Getter`, `lib/query.cpp:14`),
  which is no function of the connector, where `lib/query.h:14` speaks of one in
  the library: no query over such a table compiles. `SaneQueriesCompile` asks for
  texts, integers and doubles;
- in the connector, `relative` and `absolute` past the first row do not rewind the
  C API (`Adrift`): `next()` after `relative(-1)` from the first row returns the
  second row, after `previous()` the first, where
  `mysqlconnector/jdbc/test/unit/unit_fixture.cpp:605` calls the two equivalent.
  `Cursor` allows it; this program calls neither.

**Bounds.** Three rows are enough for two rows in one group and one in another,
in each order, for three groups with any of them erased, and for an erased group
first, in the middle and last. Seven characters hold three parts and two
two-character delimiters, adjacent or not, and every short rest. Three columns
hold a name, one that contains it and an unrelated one, in either order; five data
types have one of each C++ type that g++ treats differently and MySQL columns of
ordinary queries have. Four tokens make every
condition of a column, an operator and a one-token value, with or without a token
out of place; the longer ones, which an exhaustive set cannot reach, are put
together from parts, right and wrong. Five pieces hold three conditions
with two connectives, or two with a blank missing or too many. Three rows and offsets to 4 reach
both sides of both ends from every row. Two generators and two rows each
interleave inserts with each other and with every step of the reader. Two requests
are enough for leftovers of an earlier one; a third would find the directory in a
state the second may find it in. `SizeMod` is far above the lengths, so a wrapped
bound is larger than any string, as with 64 bits.

**Deadlock** checking is off where the program ends (`pc` in `Ended`, a returned
`explode`, a parsed query, a session whose user asks nothing more, processes
that have ended, a caller that makes no further call).

**Fairness.** `MFScan` and `Explode` are one thread that waits for nothing:
`WF_vars(Next)` says that a program with a next statement executes it.
`Workflow` has weak fairness on `Step` only: the programs run on and the user
answers the prompts once `final` is started; asking again and killing `final`
are never assumed. `Database` has weak fairness for the reader and for each
started generator, which are processes of their own that the operating system
keeps running; nobody has to start a generator or alter the table, and no call is
assumed to succeed. `Clauses` and `ResultSet` state no liveness: the first is a
chain of bounded loops, the second moves when its caller does.

## 4. Proofs

The proofs hold for every query that satisfies the `ASSUME`s, every set of
tables, every n, every string, every width of `size_t` and of `int`, every stored
result, all offsets, every set of schemas and any number of processes.

`Induction` has what the other modules need about data of unbounded size. The
library's induction theorems take a predicate as an operator, which the provers
cannot instantiate; `SetInduction` and `MeasureInduction` take the *set* of
elements with the property instead, and rest on the well-foundedness of `<`.
`RecursiveFunction` is the unfolding of a recursive function whose definition is
given as a set of equations (`IsRecursion`). With these, operators written as
recursive functions (`Exploded`, `Split`, `Join`, `SelectedFrom`, `Chosen`, the
folds over finite sets) can be reasoned about.

`MFScanProofs`, from `VarsAssumption`, `ColumnsAssumption`,
`AggregatesAssumption`, `RowsAssumption`, `HavingAssumption`, `TablesAssumption`:
- `TypeCorrect`: `Spec => []TypeOK`;
- `Safe`: `Spec => []NeverOutOfRange`;
- `UniquesAreFirsts`: `Spec => []OneRowPerGroup`;
- `PrintsOnce`: `Spec => []PrintsGroupsOnce`.

None is inductive by itself. `at(pos)` is safe because `vfind` finds the group of
a row in every `dataN`, which needs (1) that every row is of the group of some
unique row (`OneRowPerGroup`), (2) that `dataN[i]` is as long as `uniques` and
has at position p the columns of the p-th unique row (`Parallel`), and (3) that V
is among the copied columns. `fill_mfstruct` needs that every entry of
`mf_struct` still has the columns of a group and no two the same
(`EntriesOfGroups`), which `erase` keeps. `BeforeScans` says where the loops
before the scans are. `IInv` is the conjunction; `InitIInv`, one lemma per loop
(`RetrieveKeeps`, `UniquesKeeps`, `PrelimKeeps`, `ScanKeeps`, `FillKeeps`) and
`NextIInv` show it inductive. `ShapeKeeps` carries most of the last two: a step
that changes only aggregate values and iterators disturbs none of it. Types need
that every division has a non-zero divisor (`FieldValueInt`, `ValuesInt`).

The second half of `MFScanProofs`, from the same assumptions:
- `AggregatesExact`: `Intended => (Spec => []ScannedAggregatesExact)`;
- `FillIsExact`: `Intended => (Spec => []FillExact)`;
- `AnswerPrinted`: `Intended => (Spec => []PrintedAnswer)`;
- `QueryRefined`: `Intended => (Spec => RefinesQuery)`.

`Intended` is a hypothesis about the constants, not about states. `MCMFIntended`
states it as an `ASSUME`, which TLC evaluates in the runs `mf_scan` and
`emf_scan`; the runs `having_equals` and `emf_order` show the conclusions false for
queries outside it. Two invariants are added to `IInv`:
- `ScanInv`: with the loops at variable `gv` and iterators `it`, `xt`, the field of
  every aggregate is the aggregate over the rows *seen so far* that fit the group
  (`SeenAt`, `Taken`, `IsFields`). `ScannedAggregatesExact` speaks only of the end of
  a scan, so it is not inductive. A step adds one row to a sum, a count or an
  extremum (`CellStep`); for the sum this needs that the fold of the community
  modules does not depend on which element it takes first (`SumTakeAny`, `SumAdd`,
  by induction on the size of a set). An extremum starts at 0, which is why its
  column must have the right sign. `SelectedFits` shows that the text
  `Condition::toCpp` generates selects the rows that fit, `MeaningIs` that the
  meaning of an intended query needs no recursion over the variables.
- `FillInv`: for some number p of groups passed, the entries before `it` are the
  entries of the answer for the first p groups and the others are the untouched
  entries of groups p+1, p+2, ... (`FillAt`). Keeping and erasing both pass one group
  (`FillKeepExact`, `FillEraseExact`); `OrderStep` says what that adds to the answer.

The refinement has one lemma for each visible step (`StepPrints`, `StepAborts`,
`StepFails`) and one for the rest (`StepsStutter`); `LoadInv` ties `data` to the
table.

`ExplodeProofs`, from `SizeAssumption` (a string and the delimiter are shorter
than `size_t` counts, as `max_size` guarantees):
- `ThrowsOnlyThen`: `Spec => []ThrowsOnlyOnShortRest`;
- `TypeCorrect`: `Spec => []TypeOK`;
- `NothingIsLost`: `Spec => []NothingLost`;
- `ComputesTheFunction`: `Spec => []ComputesExploded`;
- `SplitsCleanLists`: `Spec => []CleanListsSplit`.

The rest only gets shorter, so its length stays below `SizeMod`; `BoundExact`
shows that the subtraction in the loop bound then wraps only when the rest is
shorter than the delimiter. `NothingLost` is inductive with the types: a cut
moves a part and the delimiter from the rest to the parts. For
`ComputesExploded` the invariant `Computed` says that the function's value for
the whole string is the parts so far followed by its value for the rest, and that
no delimiter it would cut at has been passed. For `CleanListsSplit`, `Agrees`
says the same of the reference `Split`, for clean lists only: the loop restarts
at index 1 after a cut and not at 0, which makes no difference where no part
is empty.

`WorkflowProofs`, from `QueriesAssumption`, for every set of queries, every text
and any number of requests:
- `PairWritten`: `Spec => []PairOfThisQuery`;
- `PrintsTheAnswer`: `Spec => []AnswersTheRequest`;
- `SessionTypes`: `Spec => []TypeOK`, also from `SessionAssumption`.

`WrittenSoFar` says which of the two files is already the one of this run, from
the first close on. For what is printed one has to follow the query from the
prompt: the lines read so far are those of the query while the stream is good
(`ReadSoFar`; `TypedLines`, `NextLine` and `TerminalOperands` are about the
sequence of lines), the operands are those asked or g++ refuses them
(`OperandsAsAsked`, `FileOperands`), and what is compiled is the source just
written, which is the operands. `unnoticed` never shrinks within a request, so each part may
assume it empty. `GivenKeeps` and `FailureKeeps` serve the steps that touch
neither the query nor the operands. That g++ refuses such operands (`Malformed`)
is part of the model of the compiler, not of this repository's code. For
the types one needs that a request is under way (`TypeInv`: `requests` is above 0
then, and `parse_query` has all its operands).

`ResultSetProofs`, from `RowsAssumption`:
- `TypeCorrect`: `RSSpec => []TypeOK`;
- `DriftOnlyBackwards`: `RSSpec => DriftsOnlyBackwards`;
- `ImplementsCursor`: `RSSpec => RefinesCursor`.

The invariant `Inv` is `TypeOK` and that the stored rows are a result of the
query, so that all of them have the same columns. `DriftStep` goes through every
call and shows that the two positions stay together in all but two. The
refinement has one lemma per call (`NextSimulates` ... `AsksSimulate`): while the
positions agree, the row fetched is the row shown, so a getter returns the cell
of the abstract position (`CellRead`; `NarrowedFits` is the cast to 32 bits) and
`next()` cannot run out of rows early. Once adrift, `next()` is a `ForthAdrift` step
and a getter reads what it finds (`ReadsAdrift`); the moves that name a row or an
end bring the positions together again. Deleting the connection changes nothing the cursor
has.

`DatabaseProofs`, from `SchemaAssumption` (the type of a column says how it is
read; names and types are not NULL), `WhereAssumption`, `GeneratorAssumption`,
`TableAssumption` (the server fits a row to any of the schemas) and those of
`ResultSet`, for any number of generators, schemas and
alterations:
- `DatabaseTypeCorrect`: `Spec => []DatabaseTypeOK`;
- `OneSchema`: `Spec => []ColumnsOfOneSchema`;
- `RowsOnce`: `Spec => []EachRowOnce`;
- `OneMoment`: `Spec => []OneMomentOfTheTable`;
- `AccountedFor`: `Spec => []EntriesAccountedFor`.

The invariant `QueryInv` has the types, the reader and the result set in step
(`InStep`: the two positions of the result set agree and point at the row being
read), columns that come from one schema, in the stored result and then in the
program (`SchemaRead`), a row under construction that holds the cells of the
columns already read (`EntryRead`), and rows kept that are the first rows of the
result (`RowsKept`). The steps of the result set are taken over from
`ResultSetProofs` (`TypeStep`). `OneMomentOfTheTable` needs that appending a row to
the table appends to, or leaves, what a SELECT returns. `Counts` adds the inserted
rows of the generators (`Total`); that one more row of one of them adds one is an
induction over the finite set of generators.

`DeclarationsProofs`, from `InputsAssumption` (the operands are sequences of
attributes, an aggregate has a variable, a function and a column):
- `DeclarationsTypeCorrect`: `Spec => []TypeOK`;
- `AcceptedProgramsFit`: `Spec => []CompiledMeetsAssumptions`;
- `LookupsFindTheSame`: `Spec => []LookupsAgree`;
- `SaneQueriesAreAccepted`: `Spec => []SaneQueriesCompile`.

The invariant `Built` says where each loop is and that every element declared so
far is the one its attribute gives (`Inputs`, `Lengths`, `Elements`), and that the
ends of the program mean what they say (`Verdicts`: a throw where `Throws` holds,
compiled only what is well typed). The three properties of whole programs then
follow from what the vectors hold when the loops have ended: `MemberOfSales`,
`PlainOfMf`, `AggregateOfMf`, `AggregateOfGroup` and `PlainOfGroup` find the one
member with a name, `ColumnsApart` and `ExactLookups` turn the lookup by substring
into one by name, `DetourAgrees` compares the type of a column with the type through
`ctype`, and one lemma for each statement of the generated program (`Sane...`)
shows it well typed. `CompiledMeetsAssumptions` is the bridge to
`MFScanProofs`: `ColumnsAssumption` and `AggregatesAssumption` there hold for
whatever g++ accepts, unless F has an aggregate that g++ does not look at
(`Unchecked`); for those they are assumed.

`ClausesProofs`, from `BlankAssumption`, `TokenAssumption`, `NumberAssumption` (a
number is a token of its own), `ColumnAssumption` (a column's name is an identifier,
and so neither `and`, `or` nor `xor`) and `InputAssumption`, for texts of any
length, any table and any query:
- `Invariant`: `Spec => []Inv`, and from it
- `TypesOK`: `Spec => []TypeOK`;
- `NamesRead`: `Spec => []NamesAsWritten`;
- `HavingRead`: `Spec => []HavingAsWritten`;
- `ClausesRead`: `Spec => []ClausesAsWritten`;
- `SaneRead`: `Spec => []SaneQueriesRead`.

All but the first two speak of how parsing and compiling end, so `Inv` records what
every loop has done: each vector holds what the constructor made of the operands up to the loop's
index and of no other (`InvAggregates`, `InvNames`, `InvColumns`, `InvLines`,
`InvClauses`), the end of a loop is the end of its vector, and the last phases mean
what they say (`InvEnd`: generated without an exception, accepted what compiles,
refused what does not, aborted what cannot be read). S is split into two vectors, so
the r-th entry of one is found by counting (`Nth`; `SelectedNames`,
`SelectedColumns`). That the constructors do not throw is in the invariant where it
is used: `data->at(1)` was tried before the name was read.

The rest is about texts. `Exploded` is unfolded with `RecursiveFunction` (`FromFn`):
its parts are the pieces between the cuts (`Cuts`, `PartsAt`), and on one line the
pieces that are not blank are the words of the line, in their order (`WordsRead`);
because the search restarts one character late, a piece may carry a blank at its
front, which is the reason for `Padded`, a text up to blanks at its ends, and for
`Stripped` in the properties. A name with one underscore, or two and a number, is
read as the aggregate it names (`NamedRead`, `NameRead`), and a field that F declares
has one name only (`FieldNamed`). For a condition, g++'s acceptance is turned around:
`CondRead` has the facts that the cuts of `Condition` leave and that `toCpp` compiled
(the column is a column, the value is one of the kinds), `CondIs` and `ReadAs` build
from them a reading of the grammar with the same parts, and `SaysSo` shows that the
generated condition says what that reading says; `ConditionSays` and `LineRead` put a
line together. The exceptions of the property are used where the code would differ:
without chained operators the value has no operator in it (`NoMoreOperators`), a
prefix of this variable leaves the column at the front (`BodyAt`), and a name that is
not misnamed is the one its field was declared with (`FieldNamed`). In HAVING, g++ lets a `=` pass only
behind a field that is no call, so the word before it names an aggregate that is not
an average, and nothing but other such assignments comes before that.

`SaneRead` is the converse and goes the other way: from a reading of the grammar to
what the code finds. The words of a tidy line are its parts (`PartsAreWords`,
`TidyLine`, `TidyHaving`); the tokens of a word are those of the four parts of its
reading, one after the other (`ReadingFound`, `LaidOut`), so the first operator
character is where the grammar has its operator (`ReadCondition`). Then one lemma for
each kind of value shows that `toCpp` takes the branch of that kind and g++ accepts
the result (`ColumnCpp`, `AggregateCpp`, `ExprCpp`, `NumberCpp`, `TextCpp`): a number
has no column in it, a quoted text gets none by replacing its quotes. `SaneLineRead`,
`SaneHavingRead`, `SaneHavingCompiles` and `SaneNames` put the query together;
`SaneReadable` excludes `aborted` and `SaneCompiles` excludes `refused`. The proof
turned up the condition on `and`, `or` and `xor`: a column of that name would be taken
for one in HAVING, but a struct with a member of that name does not compile.

Every invariant and action property of the passing runs is thus the subject of a
theorem. Only model-checked, because out of the prover's reach, is liveness
(`Termination`, `EveryRequestEnds`, `EveryoneEnds`). No module declares an operator
`RECURSIVE`, which the prover cannot unfold.

## 5. Not modelled

- Floating-point columns (values are integers) and integer overflow of sums; the
  narrowing of a column to 32 bits is in `ResultSet`.
- Group-0 aggregates in EMF queries: the code lets them range over the whole
  table, and nothing in the repository says what they should be. The same holds
  for functions the code does not know, a variable that is not a number and a
  condition's prefix that names another variable.
- In `Clauses`, words that contain other words (`Declarations` has those for
  column names), and types beyond text or not; in `Declarations`, the expressions
  of conditions and HAVING.
- The values of text columns beyond equality; `<` on text conditions.
- The overloads of `SQLConn` and the string helpers that nothing calls; the
  debug helpers.
- Forward-only result sets, prepared-statement result sets and getters other than
  `getInt` and `getString`.
- The rest of `mysqlconnector/`, a vendored copy of MySQL Connector/C++ with its
  own copies of protobuf and yaSSL: 99% of the lines under
  `src/`, most of which this program never runs. What it does run is reached
  through four calls (`connect`, `setSchema`, `executeQuery`, `execute`), which
  are modelled by how they end, and `MySQL_ResultSet`, which is modelled in full
  for the kind of result the program opens.

## 6. Plan

1. (done) the generated program, its abstract specification, its safety proofs;
   list splitting; `final` and the session with their proofs; declarations and
   types.
2. (done) parsing against a grammar; the connector's result set, its abstract
   cursor and the proof that one implements the other; `generate`, `SQLConn` and
   the readers on one table.
3. (done) the proofs of `Database`, `Declarations` and `Explode`, the types of a
   session, induction over data.
4. (done) the proofs of the values of aggregates after each scan, of
   `fill_mfstruct` and of the refinement of `MFQuery`, for the queries for which
   they hold.
5. (done) the proofs of the parsing, in both directions.
6. File input section by section, with `explode` on the sections (composition of
   `Explode` with `Final`).
