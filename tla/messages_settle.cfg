SPECIFICATION FairSpec
CONSTANTS
  Texts = {}
  Records = {}
  Replies = {a1}
  Limit = 1
  NoRow = NoRow
PROPERTY ReportedDeliveryShown
