-------------------------------- MODULE API ---------------------------------
(***************************************************************************)
(* The two surfaces over the services (internal/api): REST routes and MCP  *)
(* tools, which bind their arguments differently and call the same         *)
(* methods.  One request at a time, with every outcome of the method.      *)
(* Every operation but the raw report has both a route and a tool.         *)
(***************************************************************************)

VARIABLE requested      \* the request being answered and what its method returns, in a set

WithBody == {"create_network", "create_vm", "exec_vm", "forward_port"}
ByID == {"get_image", "get_network", "delete_network", "get_vm", "get_vm_console", "get_vm_metrics",
         "get_vm_attestation", "start_vm", "stop_vm", "reboot_vm", "delete_vm"}
Lists == {"get_host", "list_images", "list_networks", "list_vms"}
Numbered == {"create_vm", "forward_port", "get_vm_console"}

\* What the arguments may look like: the fields of the body, and the number
\* among them (the sizes of a VM, the port, the lines of the console).
\* The port is the only field of forward_port.
Request ==
    {q \in [op : WithBody \cup ByID \cup Lists, fields : {"known", "unknown", "mistyped"},
            number : {"absent", "zero", "some", "word"}] :
        q.op = "forward_port" => q.fields # "mistyped"}

\* nil, the sentinels of apierr, vm.ErrTimeout, vm.ErrFailed, any other error.
Outcome == {"nil", "NotFound", "Invalid", "Conflict", "Unsupported", "Timeout", "Failed", "other"}

\* statusFor: wrapped any number of times, an error is its sentinel.
statusFor(err) ==
    CASE err = "NotFound" -> <<404, "not_found">>
      [] err = "Invalid" -> <<400, "invalid_request">>
      [] err = "Conflict" -> <<409, "conflict">>
      [] err = "Unsupported" -> <<501, "unsupported">>
      [] err = "Timeout" -> <<504, "timeout">>
      [] err = "Failed" -> <<500, "vm_failed">>
      [] OTHER -> <<500, "internal_error">>

\* What a route answers: respond and writeError.
respond(op, err) ==
    IF err # "nil" THEN statusFor(err)
    ELSE IF op \in {"create_network", "create_vm"} THEN <<201, "">>
    ELSE IF op \in {"delete_network", "delete_vm"} THEN <<204, "">> ELSE <<200, "">>

\* What a tool answers: jsonResult and errResult.
result(op, err) == IF err # "nil" THEN statusFor(err)[2] ELSE ""

\* The number the method is called with: CreateVMRequest.spec and console take
\* zero for the default, Forward takes it as it is.
Argument(q) ==
    IF q.op \notin Numbered THEN "none"
    ELSE IF q.number = "some" THEN "some"
    ELSE IF q.op = "forward_port" THEN "zero" ELSE "default"

\* The methods behind a request: a list never fails, and Forward refuses the
\* port zero before anything else.
Method(q, outcome) ==
    IF q.op = "forward_port" /\ Argument(q) = "zero" THEN "Invalid"
    ELSE IF q.op \in {"list_images", "list_networks", "list_vms"} THEN "nil" ELSE outcome

\* The routes: decode refuses a field it does not know or cannot bind, and
\* getVMConsole lines that are not a number.
Bound(q) ==
    /\ q.op \in WithBody => q.fields = "known"
    /\ q.op \in Numbered => q.number # "word"

REST(q, outcome) ==
    IF Bound(q) THEN [called |-> <<q.op, Argument(q)>>, answer |-> respond(q.op, Method(q, outcome))]
    ELSE [called |-> <<>>, answer |-> respond(q.op, "Invalid")]

\* Mutant: a tool that takes arguments it cannot bind for none.
BindArgumentsAll(q) == TRUE

\* The tools: BindArguments takes a field it does not know and refuses one it
\* cannot bind; forward_port reads its arguments one by one and requires the
\* port, get_vm_console takes lines that are not a number for the default.
BindArguments(q) ==
    /\ q.op \in WithBody => q.fields # "mistyped"
    /\ q.op = "create_vm" => q.number # "word"
    /\ q.op = "forward_port" => q.number \notin {"word", "absent"}

MCP(q, outcome) ==
    IF BindArguments(q) THEN [called |-> <<q.op, Argument(q)>>, answer |-> result(q.op, Method(q, outcome))]
    ELSE [called |-> <<>>, answer |-> result(q.op, "Invalid")]

APIInit == requested = {}

Ask(q, outcome) == requested = {} /\ requested' = {[request |-> q, err |-> outcome]}

Answered == requested # {} /\ requested' = {}

APINext ==
    \/ \E q \in Request, outcome \in Outcome : Ask(q, outcome)
    \/ Answered

APISpec == APIInit /\ [][APINext]_requested

-----------------------------------------------------------------------------
\* A route and its tool call the same method with the same arguments and
\* report its error under the same code (rest.go: "behavior cannot drift
\* between them").  Where only one of them refuses the arguments, they have a
\* field neither knows, or console lines that are not a number.
APIParity ==
    \A a \in requested :
        LET q == a.request
            rest == REST(q, a.err)
            mcp == MCP(q, a.err)
        IN  \/ /\ rest.answer[2] = mcp.answer
               /\ <<>> \in {rest.called, mcp.called} \/ rest.called = mcp.called
            \/ q.op \in WithBody /\ q.fields = "unknown" /\ rest.called = <<>>
            \/ q.op = "get_vm_console" /\ q.number = "word" /\ rest.called = <<>>
=============================================================================
