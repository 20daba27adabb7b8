------------------------------- MODULE MCTools --------------------------------
(* Bounded instance of Tools. *)
EXTENDS Tools

MCPaths == {"input/a", "work/a", "work/s", "s"}

MCCall(tool, via, path, value, fields) ==
  [tool |-> tool, via |-> via, path |-> path, value |-> value, fields |-> fields]

MCCalls ==
  {MCCall("extract_strings_summary", "router", "work/s", "", {"path"}),
   MCCall("extract_strings_summary", "router", "work/s", "", {"path", "force"}),
   MCCall("read_challenge_file", "direct", "work/s", "", {"path"}),
   MCCall("write_work_file", "direct", "work/s", "x", {"path", "content"}),
   MCCall("write_work_file", "direct", "work/s", "y", {"path", "content"}),
   MCCall("write_work_file", "direct", "s", "x", {"path", "content"}),
   MCCall("submit_flag_candidate", "direct", "", "x", {"value", "confidence", "reason"}),
   MCCall("submit_flag_candidate", "router", "", "x", {"value", "confidence", "reason"}),
   MCCall("run_python", "direct", "", "", {"scriptPath"}),
   MCCall("run_python", "direct", "", "y", {"code"}),
   MCCall("run_python", "direct", "", "", {"args"}),
   MCCall("search_tool_output", "direct", "work/s", "q", {"path", "query"}),
   MCCall("render_transform", "router", "work/s", "op", {"path", "op"}),
   MCCall("render_transform", "router", "input/a", "op", {"path", "op"}),
   MCCall("extract_archive", "router", "input/a", "out", {"path"})}
=============================================================================
