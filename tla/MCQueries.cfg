CONSTANTS
    ExactInt = 4
    Int32Max = 7
    Int64Max = 15
    Now = 4
    NameOrder <- MCNameOrder
    CalendarYears <- MCCalendarYears
    SegmentSize = 2
    DocKeys = {1, 2}
    Contents <- MCContents
    Fields <- MCFields
    Modes = {"transactional", "lazy"}
    MaxVer = 3
SPECIFICATION Spec
PROPERTIES
  
  PlansAgree
  UpdatesAndValidatorsAgree
  ExpressionsAgree
  
  
CHECK_DEADLOCK FALSE
