\* Documents of up to three pages through a pipe of three bytes.
CONSTANTS
  Documents <- SomeDocuments
  Base = 4
  Width = 2
  PipeSize = 3
SPECIFICATION PdfFair
CHECK_DEADLOCK FALSE
INVARIANT CompleteOrError
PROPERTY PageReaderEnds
