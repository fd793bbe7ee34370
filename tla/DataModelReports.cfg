\* "The tool returns a URL to view the report in your browser": expected to be
\* violated, by one process already, as the page's script does not parse.  (When both
\* processes have ended, nothing has to happen any more.)
CONSTANTS
    Processes = {p1, p2}
    Reports = {r1, r2}
SPECIFICATION Spec
PROPERTIES
    LinkWorks
CHECK_DEADLOCK FALSE
