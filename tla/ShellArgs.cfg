SPECIFICATION Spec
CONSTANTS
    MaxLength = 5
    Scripts <- MCScripts
INVARIANTS
    TypeOK
    WordsAsQuoted
    WordsAreTheText
