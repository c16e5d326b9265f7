------------------------------- MODULE Validators -------------------------------
(***************************************************************************)
(* The five validators of a specification, the catalogue of tools they     *)
(* look at, and the templates.                                             *)
(*                                                                         *)
(* A specification is [trigger, steps, edges]: the trigger is sound if its *)
(* cron expression can be parsed, or its folder is there; a step has a     *)
(* key, a tool and the names of the parameters that are given a value.     *)
(* What a step reads and writes are the fields of its tool's schemas.      *)
(***************************************************************************)
EXTENDS Workflows

CONSTANT Disabled   \* the tools an administrator has switched off

-----------------------------------------------------------------------------
(* The catalogue. *)

Tool(required, properties, params) ==
    [required |-> required, properties |-> properties, params |-> params]

TOOL_REGISTRY ==
    [list_new_files    |-> Tool({}, {"files"}, {"path"}),
     render_pdf        |-> Tool({"files"}, {"files"}, {}),
     preprocess_image  |-> Tool({"files"}, {"files"}, {}),
     extract_invoice   |-> Tool({"files"}, {"document_ids"}, {}),
     classify_document |-> Tool({"files"}, {"classifications", "artifact_ids"}, {"labels"}),
     validate_invoice  |-> Tool({"document_ids"},
                                {"document_ids", "passed_document_ids", "review_document_ids"}, {}),
     escalate          |-> Tool({"document_ids"}, {"review_document_ids"}, {}),
     append_rows       |-> Tool({"document_ids"}, {"workbook", "artifact_ids"}, {"file"}),
     merge_files       |-> Tool({"files"}, {"workbook", "artifact_ids"}, {}),
     normalize         |-> Tool({}, {"workbook", "artifact_ids"}, {}),
     dedupe            |-> Tool({}, {"workbook", "artifact_ids"}, {}),
     reconcile         |-> Tool({}, {"artifact_ids", "mismatch_count"},
                                {"left_file", "right_file", "key_column"}),
     build_xlsx        |-> Tool({}, {"artifact_ids"}, {}),
     build_pdf         |-> Tool({}, {"artifact_ids"}, {})]

\* tool_catalog: a tool without a row in the table is enabled.
Enabled(tool) == tool \in DOMAIN TOOL_REGISTRY \ Disabled

-----------------------------------------------------------------------------
(* The templates, with a value for every parameter a tool must have. *)

Step(key, tool) ==
    [key |-> key, tool |-> tool, given |-> TOOL_REGISTRY[tool].params]
Edge(from, to, condition) == [from |-> from, to |-> to, condition |-> condition]
Line(keys) == [n \in 1 .. Len(keys) - 1 |-> Edge(keys[n], keys[n + 1], "none")]

invoice_to_excel ==
    [trigger |-> [type |-> "cron", sound |-> TRUE],
     steps |-> << Step("scan_folder", "list_new_files"),
                  Step("read_invoice", "extract_invoice"),
                  Step("check_data", "validate_invoice"),
                  Step("write_excel", "append_rows"), Step("to_review", "escalate") >>,
     edges |-> Line(<< "scan_folder", "read_invoice", "check_data" >>) \o
               << Edge("check_data", "write_excel", "pass"),
                  Edge("check_data", "to_review", "fail") >>]

invoice_report ==
    [trigger |-> [type |-> "cron", sound |-> TRUE],
     steps |-> << Step("scan_folder", "list_new_files"),
                  Step("read_invoice", "extract_invoice"),
                  Step("check_data", "validate_invoice"),
                  Step("build_report", "build_xlsx"), Step("export_pdf", "build_pdf"),
                  Step("to_review", "escalate") >>,
     edges |-> Line(<< "scan_folder", "read_invoice", "check_data" >>) \o
               << Edge("check_data", "build_report", "pass"),
                  Edge("build_report", "export_pdf", "none"),
                  Edge("check_data", "to_review", "fail") >>]

excel_clean ==
    [trigger |-> [type |-> "manual", sound |-> TRUE],
     steps |-> << Step("scan_folder", "list_new_files"), Step("merge", "merge_files"),
                  Step("normalize", "normalize"), Step("dedupe", "dedupe") >>,
     edges |-> Line(<< "scan_folder", "merge", "normalize", "dedupe" >>)]

excel_reconcile ==
    [trigger |-> [type |-> "cron", sound |-> TRUE],
     steps |-> << Step("reconcile", "reconcile") >>, edges |-> << >>]

doc_classify ==
    [trigger |-> [type |-> "manual", sound |-> TRUE],
     steps |-> << Step("scan_folder", "list_new_files"),
                  Step("classify", "classify_document") >>,
     edges |-> Line(<< "scan_folder", "classify" >>)]

TEMPLATES ==
    {invoice_to_excel, invoice_report, excel_clean, excel_reconcile, doc_classify}

-----------------------------------------------------------------------------
(* The validators. *)

StepKeys(spec) == [n \in DOMAIN spec.steps |-> spec.steps[n].key]

\* step_by_key: of two steps with one key the last.
StepOf(spec, key) ==
    spec.steps[Max({n \in DOMAIN spec.steps : spec.steps[n].key = key})]

ToolOf(spec, key) == StepOf(spec, key).tool

\* V-1
ToolsExistAndEnabled(spec) == \A step \in ToSet(spec.steps) : Enabled(step.tool)

\* A mutated form of SchemasCompatible: it is enough that one of the steps before a
\* step writes what it reads.
SchemasOfSome(spec) ==
    \A key \in ToSet(StepKeys(spec)) :
        LET before == {e.from : e \in ToSet(Incoming(spec.edges, key))} \cap ToSet(StepKeys(spec))
            known == {k \in before \cup {key} : ToolOf(spec, k) \in DOMAIN TOOL_REGISTRY}
        IN before # {} /\ known = before \cup {key} =>
              \E k \in before : TOOL_REGISTRY[ToolOf(spec, key)].required
                                \subseteq TOOL_REGISTRY[ToolOf(spec, k)].properties

\* V-4: along each edge between known steps and tools, what the one needs is among
\* the fields of the other.
SchemasCompatible(spec) ==
    \A e \in ToSet(spec.edges) :
        /\ {e.from, e.to} \subseteq ToSet(StepKeys(spec))
        /\ {ToolOf(spec, e.from), ToolOf(spec, e.to)} \subseteq DOMAIN TOOL_REGISTRY
        => TOOL_REGISTRY[ToolOf(spec, e.to)].required
              \subseteq TOOL_REGISTRY[ToolOf(spec, e.from)].properties

\* V-5
TriggerAndRequiredParams(spec) ==
    /\ spec.trigger.type \in {"cron", "file_watch"} => spec.trigger.sound
    /\ \A step \in ToSet(spec.steps) :
          step.tool \in DOMAIN TOOL_REGISTRY =>
              TOOL_REGISTRY[step.tool].params \subseteq step.given

\* validate_spec: the rules that are not kept.
ValidateSpec(spec) ==
    LET V == [V1 |-> ToolsExistAndEnabled(spec),
              V2 |-> UniqueKeysAndRealEdges(StepKeys(spec), spec.edges),
              V3 |-> NoCycles(StepKeys(spec), spec.edges),
              V4 |-> SchemasCompatible(spec),
              V5 |-> TriggerAndRequiredParams(spec)]
    IN {rule \in DOMAIN V : ~V[rule]}
=============================================================================
