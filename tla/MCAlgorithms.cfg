SPECIFICATION Spec
INVARIANTS
    RequestsRouted
    
    
    ReportsTellApart
CHECK_DEADLOCK FALSE
