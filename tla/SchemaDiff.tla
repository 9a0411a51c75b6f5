------------------------------ MODULE SchemaDiff ------------------------------
(***************************************************************************)
(* Schema migrations of @strav/database: the registered schemas are         *)
(* compared with the live catalog (inspect, diff), the operations become a  *)
(* migration (generate, migrate:generate), and the migration is applied or  *)
(* reversed in one transaction.  A column is [type, nullable, to], where    *)
(* "to" is the table a foreign key points at; every table has its own key.  *)
(***************************************************************************)
EXTENDS Naturals, Sequences, SequencesExt, Functions, TLC

CONSTANTS Registries,  \* the schema catalogs an app may declare: sequences of [name, tenanted, fields]
          Options,     \* diff options: sets of [allowDrop, allowAlter, renames: sequence of <<from, to>>]
          TenantTable, \* the schema declared as tenant registry
          None,
          MaxEdits     \* bound: changes of the catalog, and of the rows, ever made

VARIABLES registry,  \* SchemaRegistry, in registration order
          live,      \* table -> [cols, policy: under row level security, rows: may it hold some]
          file,      \* NoFile, or the generated migration: [ops, options, base: live when generated]
          applied,   \* NoFile, or the last migration applied, the next rollback's
          edits

vars == <<registry, live, file, applied, edits>>

NoFile == [ops |-> <<>>, options |-> None, base |-> <<>>]

(***************************************************************************)
(* DDL: what the catalog shows of a schema.                                 *)
(***************************************************************************)
Canonical(field) == IF field.type = "bigserial" THEN [field EXCEPT !.type = "bigint"] ELSE field
TenantColumn == [type |-> "id", nullable |-> FALSE, to |-> TenantTable]
Columns(schema) ==
  [c \in DOMAIN schema.fields |-> Canonical(schema.fields[c])] @@ (IF schema.tenanted THEN "tenant_id" :> TenantColumn ELSE <<>>)

RowSecurity(schema) == schema.tenanted

Schema(name) == registry[SelectInSeq(registry, LAMBDA s : s.name = name)]
Names == {registry[i].name : i \in DOMAIN registry}

(***************************************************************************)
(* diffSchemas.                                                             *)
(***************************************************************************)
Renamed(tables, pair) ==
  IF pair[1] \notin DOMAIN tables THEN tables
  ELSE Restrict(tables, DOMAIN tables \ {pair[1]}) @@ (pair[2] :> tables[pair[1]])

(* Depth-first by the references the fields declare; a reference to a table  *)
(* still being visited is a cycle, one of a table to itself included.        *)
RECURSIVE Visit(_, _, _)
Visit(acc, path, name) ==
  IF acc.cycle \/ name \in Range(acc.sorted) THEN acc
  ELSE IF name \in path THEN [acc EXCEPT !.cycle = TRUE]
  ELSE LET refs == {Schema(name).fields[c].to : c \in DOMAIN Schema(name).fields} \cap acc.missing
           below == FoldLeft(LAMBDA a, t : Visit(a, path \cup {name}, t), acc, SetToSeq(refs)) IN
       IF below.cycle THEN below ELSE [below EXCEPT !.sorted = Append(@, name)]

CreateOrder(missing) ==
  FoldLeft(LAMBDA a, s : IF s.name \in missing THEN Visit(a, {}, s.name) ELSE a,
           [sorted |-> <<>>, cycle |-> FALSE, missing |-> missing], registry)

(* Foreign keys are not compared. *)
Drifted(field, column) == Canonical(field).type # column.type \/ field.nullable # column.nullable

(* Mutation of Alters: nullability alone does not count as drift. *)
AltersOfType(s, columns) ==
  [i \in DOMAIN columns |-> [op |-> "alter", t |-> s.name, c |-> columns[i][1], from |-> columns[i][2],
                             to |-> [columns[i][2] EXCEPT !.type = Canonical(s.fields[columns[i][1]]).type]]]

Alters(s, columns) ==
  [i \in DOMAIN columns |-> [op |-> "alter", t |-> s.name, c |-> columns[i][1], from |-> columns[i][2],
                             to |-> [Canonical(s.fields[columns[i][1]]) EXCEPT !.to = columns[i][2].to]]]

DiffSchemas(tables, o) ==
  LET snapshot == FoldLeft(Renamed, tables, o.renames)
      order == CreateOrder(Names \ DOMAIN snapshot)
      known == SelectSeq(registry, LAMBDA s : s.name \in DOMAIN snapshot)
      Cols(s) == snapshot[s.name].cols
      Each(Op(_)) == FlattenSeq([i \in DOMAIN known |-> Op(known[i])])
      Adds(s) == SetToSeq({[op |-> "add", t |-> s.name, c |-> c, f |-> Canonical(s.fields[c])] :
                           c \in DOMAIN s.fields \ DOMAIN Cols(s)})
      Drift(s) == SetToSeq({<<c, Cols(s)[c]>> : c \in {d \in DOMAIN s.fields \cap DOMAIN Cols(s) : Drifted(s.fields[d], Cols(s)[d])}})
      AltersOf(s) == Alters(s, Drift(s))
      Drops(s) == SetToSeq({[op |-> "drop column", t |-> s.name, c |-> c] : c \in DOMAIN Cols(s) \ DOMAIN s.fields})
      unknown == \E i \in DOMAIN registry : \E c \in DOMAIN registry[i].fields : registry[i].fields[c].to \notin Names \cup {None}
      unscoped == TenantTable \notin Names /\ \E t \in Names \ DOMAIN snapshot : Schema(t).tenanted
  IN [throws |-> order.cycle \/ unknown \/ unscoped,
      ops |-> [i \in DOMAIN o.renames |-> [op |-> "rename", from |-> o.renames[i][1], to |-> o.renames[i][2]]]
              \o [i \in DOMAIN order.sorted |-> [op |-> "create", t |-> order.sorted[i], schema |-> Schema(order.sorted[i])]]
              \o Each(Adds)
              \o (IF o.allowAlter THEN Each(AltersOf) ELSE <<>>)
              \o (IF o.allowDrop THEN Each(Drops) \o SetToSeq({[op |-> "drop", t |-> t] : t \in DOMAIN snapshot \ Names}) ELSE <<>>)]

(***************************************************************************)
(* What Postgres does with one statement; a failure ends the transaction.   *)
(***************************************************************************)
Referrers(d, t) == {u \in DOMAIN d \ {t} : \E c \in DOMAIN d[u].cols : d[u].cols[c].to = t}
Repoint(d, from, to) == [t \in DOMAIN d |-> [d[t] EXCEPT !.cols = [c \in DOMAIN @ |-> IF @[c].to = from THEN [@[c] EXCEPT !.to = to] ELSE @[c]]]]

Allowed(d, s) ==
  CASE s.op = "rename" -> s.from \in DOMAIN d /\ s.to \notin DOMAIN d
    [] s.op = "create" -> s.t \notin DOMAIN d /\ \A c \in DOMAIN Columns(s.schema) : Columns(s.schema)[c].to \in DOMAIN d \cup {s.t, None}
    [] s.op = "add" -> s.t \in DOMAIN d /\ s.c \notin DOMAIN d[s.t].cols /\ s.f.to \in DOMAIN d \cup {None} /\ (s.f.nullable \/ ~d[s.t].rows)
    [] s.op = "alter" -> /\ s.t \in DOMAIN d /\ s.c \in DOMAIN d[s.t].cols
                         /\ (s.from.type # s.to.type => d[s.t].cols[s.c].to = None /\ (~d[s.t].rows \/ s.to.type = "text"))
                         /\ (s.to.nullable \/ ~s.from.nullable \/ ~d[s.t].rows)
    [] s.op = "drop column" -> s.t \in DOMAIN d /\ s.c \in DOMAIN d[s.t].cols /\ ~(d[s.t].policy /\ s.c = "tenant_id")
    [] s.op = "drop" -> s.t \in DOMAIN d /\ Referrers(d, s.t) = {}
    [] s.op = "drop if exists" -> Referrers(d, s.t) = {}

RenameTable(d, s) == Repoint(Renamed(d, <<s.from, s.to>>), s.from, s.to)
CreateTable(d, s) == d @@ (s.t :> [cols |-> Columns(s.schema), policy |-> RowSecurity(s.schema), rows |-> FALSE])
AddColumn(d, s) == [d EXCEPT ![s.t].cols = @ @@ (s.c :> s.f)]
AlterColumn(d, s) == [d EXCEPT ![s.t].cols[s.c] = [@ EXCEPT !.type = s.to.type, !.nullable = s.to.nullable]]
DropColumn(d, s) == [d EXCEPT ![s.t].cols = Restrict(@, DOMAIN @ \ {s.c})]
DropTable(d, s) == Restrict(d, DOMAIN d \ {s.t})

Effect(d, s) ==
  CASE s.op = "rename" -> RenameTable(d, s)
    [] s.op = "create" -> CreateTable(d, s)
    [] s.op = "add" -> AddColumn(d, s)
    [] s.op = "alter" -> AlterColumn(d, s)
    [] s.op = "drop column" -> DropColumn(d, s)
    [] OTHER -> DropTable(d, s)

(* The statements of a migration, in order, in its transaction. *)
Execute(d, ops) ==
  FoldLeft(LAMBDA a, s : IF a.ok /\ Allowed(a.db, s) THEN [a EXCEPT !.db = Effect(a.db, s)] ELSE [a EXCEPT !.ok = FALSE],
           [ok |-> TRUE, db |-> d], ops)

(* down(): the inverses in reverse order; drops have none. *)
Undo(s) ==
  CASE s.op = "add" -> <<[op |-> "drop column", t |-> s.t, c |-> s.c]>>
    [] s.op = "create" -> <<[op |-> "drop if exists", t |-> s.t]>>
    [] s.op = "rename" -> <<[op |-> "rename", from |-> s.to, to |-> s.from]>>
    [] s.op = "alter" -> <<[s EXCEPT !.from = s.to, !.to = s.from]>>
    [] OTHER -> <<>>
Down(ops) == FlattenSeq([i \in DOMAIN ops |-> Undo(Reverse(ops)[i])])

-----------------------------------------------------------------------------
Init == registry \in Registries /\ live = <<>> /\ file = NoFile /\ applied = NoFile /\ edits = 0

(* The schemas are edited, or rows are inserted. *)
Edit == /\ edits < MaxEdits /\ edits' = edits + 1
        /\ \/ registry' \in Registries /\ UNCHANGED live
           \/ \E t \in DOMAIN live : live' = [live EXCEPT ![t].rows = TRUE] /\ UNCHANGED registry
        /\ UNCHANGED <<file, applied>>

(* migrate:generate.  An empty diff writes no file. *)
Generate ==
  /\ file = NoFile
  /\ \E o \in Options : LET d == DiffSchemas(live, o) IN
       ~d.throws /\ d.ops # <<>> /\ file' = [ops |-> d.ops, options |-> o, base |-> live]
  /\ UNCHANGED <<registry, live, applied, edits>>

(* migrate: what fails leaves the catalog as it was, and its file is deleted. *)
Migrate == /\ file # NoFile
           /\ LET run == Execute(live, file.ops) IN
              IF run.ok THEN live' = run.db /\ applied' = file /\ file' = NoFile
              ELSE file' = NoFile /\ UNCHANGED <<live, applied>>
           /\ UNCHANGED <<registry, edits>>

Rollback == /\ applied # NoFile
            /\ LET run == Execute(live, Down(applied.ops)) IN
               run.ok /\ live' = run.db
            /\ applied' = NoFile /\ UNCHANGED <<registry, file, edits>>

Next == Edit \/ Generate \/ Migrate \/ Rollback
Spec == Init /\ [][Next]_vars

-----------------------------------------------------------------------------
Tenanted(tables) == \E t \in DOMAIN tables : tables[t].policy
Additive(o) == ~o.allowDrop

(* A migration that applied leaves no difference behind: the same diff, its  *)
(* renames done, is empty - unless it may drop columns of a tenanted table.  *)
Converges ==
  file # NoFile /\ file.base = live =>
    LET run == Execute(live, file.ops)
        o == file.options IN
    run.ok /\ file.ops = DiffSchemas(live, o).ops /\ (Tenanted(run.db) => Additive(o))
      => DiffSchemas(run.db, [o EXCEPT !.renames = <<>>]).ops = <<>>

(* Without drops, down() takes the catalog back to where up() found it, and  *)
(* on empty tables it never fails.                                           *)
Reversible ==
  file # NoFile /\ file.base = live /\ Additive(file.options) =>
    LET up == Execute(live, file.ops)
        down == Execute(up.db, Down(file.ops)) IN
    up.ok => IF down.ok THEN down.db = live ELSE \E t \in DOMAIN live : live[t].rows

(* On empty tables the additive operations come in an order Postgres takes,  *)
(* when the tenant registry is not created after a table it scopes.          *)
Ordered ==
  file # NoFile /\ file.base = live /\ file.options.renames = <<>> /\ ~file.options.allowAlter /\ Additive(file.options)
    /\ (\A t \in DOMAIN live : ~live[t].rows)
    /\ (\A i \in DOMAIN file.ops : file.ops[i].op = "create" /\ file.ops[i].schema.tenanted
          => TenantTable \in DOMAIN live \/ \E j \in 1..(i - 1) : file.ops[j].op = "create" /\ file.ops[j].t = TenantTable)
    => Execute(live, file.ops).ok

(* A generated migration applies, reaches the schemas and can be reversed.   *)
SchemaDiffInv == Converges /\ Reversible /\ Ordered

(* docs/database/guides/migration_generator.md:115: drop-column is for what  *)
(* no schema declares; a database in step with its schemas has no diff.      *)
TenantColumnKept == file # NoFile => \A i \in DOMAIN file.ops : file.ops[i].op = "drop column" => file.ops[i].c # "tenant_id"
=============================================================================
