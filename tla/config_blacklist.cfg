SPECIFICATION Spec
CONSTANTS
    NULL = NULL
    Bad = Bad
    Missing = Missing
    Unparsable = Unparsable
    Texts <- MCTexts
    Files <- BlacklistFiles
    Generated <- MCGenerated
    DefaultIp = "0.0.0.0"
    DefaultPortMin = 9901
    DefaultPortMax = 10028
INVARIANTS
    ExportsAsDocumented
